---- MODULE Spec2Model ----
(***************************************************************************)
(* MS-CertiMentor: the certification-preparation workflow                  *)
(* (src/src/workflows) and its structured-output extraction.               *)
(*                                                                         *)
(* A Python str is a sequence of characters; a character is a TLA+ string. *)
(* Field names, the JSON literals and the backquote are written as one     *)
(* character each ("questions", "true", "backquote"): no text of the model *)
(* spells them letter by letter.  The texts use objects, arrays, strings   *)
(* without escapes, unsigned integers, the three literals, and the space   *)
(* and the newline as whitespace.                                          *)
(***************************************************************************)
EXTENDS Integers, Sequences, FiniteSets, TLC

\* the double quote, the backquote (spelled out: a TLA+ string cannot hold
\* one) and the newline
Q  == "\""
BT == "backquote"
NL == "\n"

\* ------------------------------------------------------------------------
\* json.loads on a character sequence
\* ------------------------------------------------------------------------
IsWs(c) == c \in {" ", NL}

Digits == {"0", "1", "2", "3", "4", "5", "6", "7", "8", "9"}

DigitVal(c) ==
    CASE c = "0" -> 0 [] c = "1" -> 1 [] c = "2" -> 2 [] c = "3" -> 3
      [] c = "4" -> 4 [] c = "5" -> 5 [] c = "6" -> 6 [] c = "7" -> 7
      [] c = "8" -> 8 [] c = "9" -> 9

Literals == {"true", "false", "null"}

\* the element of a set of one; The({F(v) : v \in {e}}) is F(e) with e
\* computed once, as a call computes its argument before its body runs
The(S) == CHOOSE x \in S : TRUE

RECURSIVE SkipWs(_, _)
SkipWs(t, i) == IF i <= Len(t) /\ IsWs(t[i]) THEN SkipWs(t, i + 1) ELSE i

MinOf(S) == CHOOSE x \in S : \A y \in S : x <= y
MaxOf(S) == CHOOSE x \in S : \A y \in S : y <= x

\* t[i] is an opening quote: the index after the closing quote, 0 if there
\* is none or a control character (the newline) comes first
ScanString(t, i) ==
    LET closing == {j \in (i + 1)..Len(t) : t[j] = Q}
    IN  IF closing = {} THEN 0
        ELSE IF \E j \in (i + 1)..MinOf(closing) : t[j] = NL THEN 0
        ELSE MinOf(closing) + 1

\* t[i] is a digit: the index after the integer (a leading 0 stands alone)
RECURSIVE ScanDigits(_, _)
ScanDigits(t, i) == IF i <= Len(t) /\ t[i] \in Digits THEN ScanDigits(t, i + 1) ELSE i

ScanNumber(t, i) == IF t[i] = "0" THEN i + 1 ELSE ScanDigits(t, i)

RECURSIVE DecodeDigits(_, _, _, _)
DecodeDigits(t, i, e, acc) ==
    IF i >= e THEN acc ELSE DecodeDigits(t, i + 1, e, 10 * acc + DigitVal(t[i]))

EmptyDict == [k \in {} |-> k]

\* a scanned value: the index after it and the Python value (a str, an int,
\* a bool, None, a list, or a dict: a function from keys to values, the
\* last duplicate of a key wins); end is 0 when there is no value
NoValue == [end |-> 0, val |-> [kind |-> "none", val |-> 0]]
Scanned(e, kind, val) == [end |-> e, val |-> [kind |-> kind, val |-> val]]

StringAt(t, i, e) ==
    IF e = 0 THEN NoValue ELSE Scanned(e, "str", SubSeq(t, i + 1, e - 2))

NumberAt(t, i, e) == Scanned(e, "int", DecodeDigits(t, i, e, 0))

\* the character at i, no character beyond the ends of the text
Char(t, i) == IF i \in 1..Len(t) THEN t[i] ELSE ""

RECURSIVE ParseValue(_, _), ParseMembers(_, _, _), ParseElements(_, _, _)

\* k is just after "{" and whitespace
ObjectAt(t, k) ==
    IF Char(t, k) = "}" THEN Scanned(k + 1, "dict", EmptyDict)
    ELSE ParseMembers(t, k, EmptyDict)

\* k is just after "[" and whitespace
ArrayAt(t, k) ==
    IF Char(t, k) = "]" THEN Scanned(k + 1, "list", <<>>)
    ELSE ParseElements(t, k, <<>>)

\* the JSON value that starts at i
ParseValue(t, i) ==
    CASE Char(t, i) = Q                 -> StringAt(t, i, ScanString(t, i))
      [] Char(t, i) \in Digits          -> NumberAt(t, i, ScanNumber(t, i))
      [] Char(t, i) \in {"true", "false"} -> Scanned(i + 1, "bool", t[i] = "true")
      [] Char(t, i) = "null"            -> Scanned(i + 1, "none", 0)
      [] Char(t, i) = "{"               -> ObjectAt(t, SkipWs(t, i + 1))
      [] Char(t, i) = "["               -> ArrayAt(t, SkipWs(t, i + 1))
      [] OTHER                          -> NoValue

\* a member or an element read: the index after it and the whitespace behind
\* it, and what the object or the array holds with it; end is 0 when there
\* is none
NoMember == [end |-> 0, held |-> EmptyDict]

\* the member whose value v was scanned, added to the members acc
MemberOf(t, key, v, acc) ==
    IF v.end = 0 THEN NoMember
    ELSE [end |-> SkipWs(t, v.end), held |-> (key :> v.val) @@ acc]

\* c is where the colon of the member must be
MemberColon(t, key, c, acc) ==
    IF Char(t, c) # ":" THEN NoMember
    ELSE The({MemberOf(t, key, v, acc) : v \in {ParseValue(t, SkipWs(t, c + 1))}})

\* s is the index after the closing quote of the key that opens at k
MemberKey(t, k, s, acc) ==
    IF s = 0 THEN NoMember
    ELSE MemberColon(t, SubSeq(t, k + 1, s - 2), SkipWs(t, s), acc)

\* the member "key": value that must start at k
MemberAt(t, k, acc) ==
    IF Char(t, k) # Q THEN NoMember
    ELSE The({MemberKey(t, k, s, acc) : s \in {ScanString(t, k)}})

\* k is where a member must start; acc holds the members so far
ParseMembers(t, k, acc) ==
    The({CASE Char(t, m.end) = "}" -> Scanned(m.end + 1, "dict", m.held)
           [] Char(t, m.end) = "," -> ParseMembers(t, SkipWs(t, m.end + 1), m.held)
           [] OTHER                -> NoValue
         : m \in {MemberAt(t, k, acc)}})

\* the element whose value v was scanned, added to the elements acc
ElementOf(t, v, acc) ==
    IF v.end = 0 THEN NoMember
    ELSE [end |-> SkipWs(t, v.end), held |-> Append(acc, v.val)]

\* k is where an array element must start; acc holds the elements so far
ParseElements(t, k, acc) ==
    The({CASE Char(t, el.end) = "]" -> Scanned(el.end + 1, "list", el.held)
           [] Char(t, el.end) = "," -> ParseElements(t, SkipWs(t, el.end + 1), el.held)
           [] OTHER                 -> NoValue
         : el \in {ElementOf(t, v, acc) : v \in {ParseValue(t, k)}}})

JSONDecodeError == [ok |-> FALSE, err |-> "JSONDecodeError"]

\* the whole text must be one value between optional whitespace
Loaded(t, v) ==
    IF v.end # 0 /\ SkipWs(t, v.end) = Len(t) + 1
    THEN [ok |-> TRUE, value |-> v.val]
    ELSE JSONDecodeError

\* json.loads(t): the decoded value, or JSONDecodeError
json_loads(t) == The({Loaded(t, v) : v \in {ParseValue(t, SkipWs(t, 1))}})

\* ------------------------------------------------------------------------
\* the two regular expressions of extract_json_from_text
\* ------------------------------------------------------------------------
IsFence(t, p) == p + 2 <= Len(t) /\ t[p] = BT /\ t[p + 1] = BT /\ t[p + 2] = BT

HasLabel(t, p) ==
    p + 3 <= Len(t) /\ t[p] = "j" /\ t[p + 1] = "s" /\ t[p + 2] = "o" /\ t[p + 3] = "n"

\* fence, optional label json, whitespace, opening brace, anchored at p:
\* the index of the opening brace, 0 if the pattern does not match there
FenceOpenBrace(t, p) ==
    IF ~IsFence(t, p) THEN 0
    ELSE LET viaLabel == IF HasLabel(t, p + 3) THEN SkipWs(t, p + 7) ELSE 0
             direct   == SkipWs(t, p + 3)
         IN  IF viaLabel # 0 /\ viaLabel <= Len(t) /\ t[viaLabel] = "{" THEN viaLabel
             ELSE IF direct <= Len(t) /\ t[direct] = "{" THEN direct
             ELSE 0

\* lazy group from the brace at b: the closing braces that are
\* followed by optional whitespace and a fence
FenceCloseBraces(t, b) ==
    {e \in (b + 1)..Len(t) : t[e] = "}" /\ IsFence(t, SkipWs(t, e + 1))}

\* the fenced-block re.search of extract_json_from_text (re.DOTALL):
\* group(1) of the leftmost match with the shortest group, or no match
FencedBlockSearch(t) ==
    LET starts == {p \in 1..Len(t) :
                      FenceOpenBrace(t, p) # 0
                      /\ FenceCloseBraces(t, FenceOpenBrace(t, p)) # {}}
    IN  IF starts = {} THEN [found |-> FALSE]
        ELSE LET b == FenceOpenBrace(t, MinOf(starts))
             IN  [found |-> TRUE,
                  group |-> SubSeq(t, b, MinOf(FenceCloseBraces(t, b)))]

\* the brace-span re.search (greedy, re.DOTALL): group(0), the first "{"
\* up to the last "}" after it, or no match
BraceSpanSearch(t) ==
    LET opens == {p \in 1..Len(t) : t[p] = "{"}
    IN  IF opens = {} THEN [found |-> FALSE]
        ELSE LET b      == MinOf(opens)
                 closes == {e \in (b + 1)..Len(t) : t[e] = "}"}
             IN  IF closes = {} THEN [found |-> FALSE]
                 ELSE [found |-> TRUE, group |-> SubSeq(t, b, MaxOf(closes))]

\* the third attempt: the brace span, parsed if there is one
FromBraceSpan(span) ==
    IF span.found THEN json_loads(span.group) ELSE JSONDecodeError

\* the second attempt: the fenced block, parsed if there is one
FromFencedBlock(fenced, text) ==
    IF fenced.found THEN json_loads(fenced.group)
    ELSE The({FromBraceSpan(span) : span \in {BraceSpanSearch(text)}})

\* the first attempt: the text as it is
FromDirect(direct, text) ==
    IF direct.ok THEN direct
    ELSE The({FromFencedBlock(fenced, text) : fenced \in {FencedBlockSearch(text)}})

\* extract_json_from_text(text): direct parse, else the fenced block, else
\* the brace span; a found block or span that does not parse raises
extract_json_from_text(text) ==
    The({FromDirect(direct, text) : direct \in {json_loads(text)}})

\* ------------------------------------------------------------------------
\* the domain schemas (src/src/models), with the fields this model follows
\* ------------------------------------------------------------------------
ValidationError == [ok |-> FALSE, err |-> "ValidationError"]
TypeError       == [ok |-> FALSE, err |-> "TypeError"]
ImportError     == [ok |-> FALSE, err |-> "ImportError"]
KeyError        == [ok |-> FALSE, err |-> "KeyError"]

Has(d, k)     == <<k>> \in DOMAIN d.val
FieldOf(d, k) == d.val[<<k>>]
IsStr(v)      == v.kind = "str"
IsInt(v)      == v.kind = "int"
\* a str field holding a single word or letter
WordOf(v)     == IF Len(v.val) = 1 THEN v.val[1] ELSE ""

NumQuestions == 10

DifficultyLevel == {"easy", "medium", "hard"}
AnswerLetters   == {"A", "B", "C", "D"}

DefaultDistribution == [d \in DifficultyLevel |-> CASE d = "easy" -> 3 [] d = "medium" -> 5 [] d = "hard" -> 2]

\* Question: question_number 1..10, difficulty, correct_answer, and the
\* optional is_scenario_based
IsQuestionData(v) ==
    /\ v.kind = "dict"
    /\ Has(v, "question_number") /\ IsInt(FieldOf(v, "question_number"))
    /\ FieldOf(v, "question_number").val \in 1..10
    /\ Has(v, "difficulty") /\ IsStr(FieldOf(v, "difficulty"))
    /\ WordOf(FieldOf(v, "difficulty")) \in DifficultyLevel
    /\ Has(v, "correct_answer") /\ IsStr(FieldOf(v, "correct_answer"))
    /\ WordOf(FieldOf(v, "correct_answer")) \in AnswerLetters
    /\ Has(v, "is_scenario_based") => FieldOf(v, "is_scenario_based").kind = "bool"

Question(v) ==
    [question_number   |-> FieldOf(v, "question_number").val,
     difficulty        |-> WordOf(FieldOf(v, "difficulty")),
     correct_answer    |-> WordOf(FieldOf(v, "correct_answer")),
     is_scenario_based |-> IF Has(v, "is_scenario_based")
                           THEN FieldOf(v, "is_scenario_based").val ELSE FALSE]

\* the dict given dropped for the default
DistributionDropped(v) == DefaultDistribution

\* the difficulty_distribution dict as given: any keys, a value that is not
\* an int is kept as -1 (it equals no count)
DistributionOf(v) ==
    [k \in {key[1] : key \in {x \in DOMAIN v.val : Len(x) = 1}} |->
        IF IsInt(v.val[<<k>>]) THEN v.val[<<k>>].val ELSE -1]

\* Quiz(**data): questions is a list of exactly 10 Questions;
\* total_questions and difficulty_distribution have defaults
Quiz(data) ==
    IF data.kind # "dict" THEN TypeError
    ELSE IF ~(/\ Has(data, "questions")
              /\ FieldOf(data, "questions").kind = "list"
              /\ Len(FieldOf(data, "questions").val) = NumQuestions
              /\ \A i \in 1..Len(FieldOf(data, "questions").val) :
                     IsQuestionData(FieldOf(data, "questions").val[i])
              /\ Has(data, "total_questions") => IsInt(FieldOf(data, "total_questions"))
              /\ Has(data, "difficulty_distribution")
                     => FieldOf(data, "difficulty_distribution").kind = "dict")
    THEN ValidationError
    ELSE [ok |-> TRUE, value |->
            [cls |-> "Quiz",
             total_questions |-> IF Has(data, "total_questions")
                                 THEN FieldOf(data, "total_questions").val ELSE 10,
             difficulty_distribution |->
                 IF Has(data, "difficulty_distribution")
                 THEN DistributionOf(FieldOf(data, "difficulty_distribution"))
                 ELSE DefaultDistribution,
             questions |-> [i \in 1..NumQuestions |->
                               Question(FieldOf(data, "questions").val[i])]]]

\* CuratedLearningPlan(**data): exam is a required str
CuratedLearningPlan(data) ==
    IF data.kind # "dict" THEN TypeError
    ELSE IF ~(Has(data, "exam") /\ IsStr(FieldOf(data, "exam"))) THEN ValidationError
    ELSE [ok |-> TRUE, value |->
            [cls |-> "CuratedLearningPlan", exam |-> FieldOf(data, "exam").val]]

MinMilestones == 4

\* Milestone: percentage is a required int in 0..100
IsMilestoneData(v) ==
    /\ v.kind = "dict"
    /\ Has(v, "percentage") /\ IsInt(FieldOf(v, "percentage"))
    /\ FieldOf(v, "percentage").val \in 0..100

Milestone(v) == [percentage |-> FieldOf(v, "percentage").val]

\* a list of Milestone data as Milestones
MilestonesOf(v) == [i \in 1..Len(v.val) |-> Milestone(v.val[i])]

\* StudyPlan(**data): plan_title is a required str, total_duration_weeks a
\* required int in 1..52, milestones a list of at least 4 Milestones
StudyPlan(data) ==
    IF data.kind # "dict" THEN TypeError
    ELSE IF ~(/\ Has(data, "plan_title") /\ IsStr(FieldOf(data, "plan_title"))
              /\ Has(data, "total_duration_weeks")
              /\ IsInt(FieldOf(data, "total_duration_weeks"))
              /\ FieldOf(data, "total_duration_weeks").val \in 1..52
              /\ Has(data, "milestones")
              /\ FieldOf(data, "milestones").kind = "list"
              /\ Len(FieldOf(data, "milestones").val) >= MinMilestones
              /\ \A i \in 1..Len(FieldOf(data, "milestones").val) :
                     IsMilestoneData(FieldOf(data, "milestones").val[i]))
    THEN ValidationError
    ELSE [ok |-> TRUE, value |->
            [cls |-> "StudyPlan",
             plan_title |-> FieldOf(data, "plan_title").val,
             total_duration_weeks |-> FieldOf(data, "total_duration_weeks").val,
             milestones |-> MilestonesOf(FieldOf(data, "milestones"))]]

RecommendedAction == {"book_exam", "delay_and_reinforce", "rebuild_foundation"}

DomainStatus == {"strong", "adequate", "weak"}

\* DomainPerformanceSummary: score_percentage is a required number in
\* 0..100, status one of the three literals
IsDomainSummaryData(v) ==
    /\ v.kind = "dict"
    /\ Has(v, "score_percentage") /\ IsInt(FieldOf(v, "score_percentage"))
    /\ FieldOf(v, "score_percentage").val \in 0..100
    /\ Has(v, "status") /\ IsStr(FieldOf(v, "status"))
    /\ WordOf(FieldOf(v, "status")) \in DomainStatus

DomainPerformanceSummary(v) ==
    [score_percentage |-> FieldOf(v, "score_percentage").val,
     status           |-> WordOf(FieldOf(v, "status"))]

DomainPerformanceOf(data) ==
    [i \in 1..Len(FieldOf(data, "domain_performance").val) |->
        DomainPerformanceSummary(FieldOf(data, "domain_performance").val[i])]

\* AssessmentFeedback(**data): score_percentage is a required number in
\* 0..100, passed a required bool, domain_performance a list of at least
\* one DomainPerformanceSummary
AssessmentFeedback(data) ==
    IF data.kind # "dict" THEN TypeError
    ELSE IF ~(/\ Has(data, "score_percentage")
              /\ IsInt(FieldOf(data, "score_percentage"))
              /\ FieldOf(data, "score_percentage").val \in 0..100
              /\ Has(data, "passed") /\ FieldOf(data, "passed").kind = "bool"
              /\ Has(data, "domain_performance")
              /\ FieldOf(data, "domain_performance").kind = "list"
              /\ Len(FieldOf(data, "domain_performance").val) >= 1
              /\ \A i \in 1..Len(FieldOf(data, "domain_performance").val) :
                     IsDomainSummaryData(FieldOf(data, "domain_performance").val[i]))
    THEN ValidationError
    ELSE [ok |-> TRUE, value |->
            [cls |-> "AssessmentFeedback",
             score_percentage |-> FieldOf(data, "score_percentage").val,
             passed |-> FieldOf(data, "passed").val,
             domain_performance |-> DomainPerformanceOf(data)]]

MaxDomains == 10

\* DomainPerformance: exam_weight is a required str, score a required int
\* in 0..100, status a required DomainStatus
IsDomainPerformanceData(v) ==
    /\ v.kind = "dict"
    /\ Has(v, "exam_weight") /\ IsStr(FieldOf(v, "exam_weight"))
    /\ Has(v, "score") /\ IsInt(FieldOf(v, "score"))
    /\ FieldOf(v, "score").val \in 0..100
    /\ Has(v, "status") /\ IsStr(FieldOf(v, "status"))
    /\ WordOf(FieldOf(v, "status")) \in DomainStatus

DomainPerformance(v) ==
    [exam_weight |-> FieldOf(v, "exam_weight").val,
     score       |-> FieldOf(v, "score").val,
     status      |-> WordOf(FieldOf(v, "status"))]

\* ReadinessAssessment.critical_risks: a list of str, empty by default
CriticalRisksOf(ra) ==
    IF Has(ra, "critical_risks")
    THEN [i \in 1..Len(FieldOf(ra, "critical_risks").val) |->
             FieldOf(ra, "critical_risks").val[i].val]
    ELSE <<>>

\* ReadinessAssessment.domain_breakdown: 1 to 10 DomainPerformances
DomainBreakdownOf(ra) ==
    [i \in 1..Len(FieldOf(ra, "domain_breakdown").val) |->
        DomainPerformance(FieldOf(ra, "domain_breakdown").val[i])]

\* ExamPlan(**data): readiness_assessment.overall_score is an int in 0..100,
\* readiness_assessment.critical_risks a list of str,
\* readiness_assessment.domain_breakdown a list of 1 to 10
\* DomainPerformances, recommendation.action a RecommendedAction
ExamPlan(data) ==
    IF data.kind # "dict" THEN TypeError
    ELSE IF ~(/\ Has(data, "readiness_assessment")
              /\ FieldOf(data, "readiness_assessment").kind = "dict"
              /\ LET ra == FieldOf(data, "readiness_assessment")
                 IN  /\ Has(ra, "overall_score") /\ IsInt(FieldOf(ra, "overall_score"))
                     /\ FieldOf(ra, "overall_score").val \in 0..100
                     /\ Has(ra, "critical_risks") =>
                           /\ FieldOf(ra, "critical_risks").kind = "list"
                           /\ \A i \in 1..Len(FieldOf(ra, "critical_risks").val) :
                                  IsStr(FieldOf(ra, "critical_risks").val[i])
                     /\ Has(ra, "domain_breakdown")
                     /\ FieldOf(ra, "domain_breakdown").kind = "list"
                     /\ Len(FieldOf(ra, "domain_breakdown").val) \in 1..MaxDomains
                     /\ \A i \in 1..Len(FieldOf(ra, "domain_breakdown").val) :
                            IsDomainPerformanceData(FieldOf(ra, "domain_breakdown").val[i])
              /\ Has(data, "recommendation")
              /\ FieldOf(data, "recommendation").kind = "dict"
              /\ LET rc == FieldOf(data, "recommendation")
                 IN  /\ Has(rc, "action") /\ IsStr(FieldOf(rc, "action"))
                     /\ WordOf(FieldOf(rc, "action")) \in RecommendedAction)
    THEN ValidationError
    ELSE [ok |-> TRUE, value |->
            [cls |-> "ExamPlan",
             overall_score |-> FieldOf(FieldOf(data, "readiness_assessment"), "overall_score").val,
             critical_risks |-> CriticalRisksOf(FieldOf(data, "readiness_assessment")),
             domain_breakdown |-> DomainBreakdownOf(FieldOf(data, "readiness_assessment")),
             action |-> WordOf(FieldOf(FieldOf(data, "recommendation"), "action"))]]

\* ------------------------------------------------------------------------
\* methods of the schemas
\* ------------------------------------------------------------------------
\* sum(1 for q in self.questions if q.difficulty == d)
CountDifficulty(qs, d) == Cardinality({i \in DOMAIN qs : qs[i].difficulty = d})

\* sum(1 for q in self.questions if q.is_scenario_based)
CountScenario(qs) == Cardinality({i \in DOMAIN qs : qs[i].is_scenario_based})

RECURSIVE SortBuckets(_, _)
SortBuckets(qs, nums) ==
    IF nums = {} THEN <<>>
    ELSE The({SelectSeq(qs, LAMBDA q : q.question_number = m) \o SortBuckets(qs, rest) :
                 <<m, rest>> \in {<<MinOf(nums), nums \ {MinOf(nums)}>>}})

\* sorted(quiz.questions, key=lambda q: q.question_number): stable
SortedQuestions(quiz) ==
    SortBuckets(quiz.questions, {quiz.questions[i].question_number : i \in DOMAIN quiz.questions})

\* the correct answers in the order the questions are listed
CorrectAnswersAsListed(quiz) ==
    [i \in 1..Len(quiz.questions) |-> quiz.questions[i].correct_answer]

\* Quiz.get_correct_answers()
get_correct_answers(quiz) ==
    [i \in 1..Len(quiz.questions) |-> SortedQuestions(quiz)[i].correct_answer]

\* Quiz.validate_distribution(): the counts against the quiz's own
\* difficulty_distribution, looked up key by key as the conjunction
\* short-circuits; a missing key raises KeyError
validate_distribution(quiz) ==
    LET dd    == quiz.difficulty_distribution
        n(d)  == CountDifficulty(quiz.questions, d)
    IN  IF "easy" \notin DOMAIN dd THEN KeyError
        ELSE IF n("easy") # dd["easy"] THEN [ok |-> TRUE, value |-> FALSE]
        ELSE IF "medium" \notin DOMAIN dd THEN KeyError
        ELSE IF n("medium") # dd["medium"] THEN [ok |-> TRUE, value |-> FALSE]
        ELSE IF "hard" \notin DOMAIN dd THEN KeyError
        ELSE [ok |-> TRUE, value |-> n("hard") = dd["hard"]]

\* Quiz.validate_scenario_questions()
validate_scenario_questions(quiz) ==
    CountScenario(quiz.questions) >= 2

DigitChar(d) ==
    CASE d = 0 -> "0" [] d = 1 -> "1" [] d = 2 -> "2" [] d = 3 -> "3" [] d = 4 -> "4"
      [] d = 5 -> "5" [] d = 6 -> "6" [] d = 7 -> "7" [] d = 8 -> "8" [] d = 9 -> "9"

\* str(n) of a natural number
RECURSIVE IntChars(_)
IntChars(n) == IF n < 10 THEN <<DigitChar(n)>> ELSE IntChars(n \div 10) \o <<DigitChar(n % 10)>>

\* StudyPlan.summary_text(), the lines of the fields followed here
StudyPlanSummary(plan) ==
    <<"Plan de Estudio: ">> \o plan.plan_title \o <<NL>>
    \o <<"Duracion: ">> \o IntChars(plan.total_duration_weeks) \o <<" semanas", NL>>

\* CuratedLearningPlan.summary_text(), the line of the field followed here
CuratedPlanSummary(plan) == <<"Exam: ">> \o plan.exam \o <<NL>>

\* ------------------------------------------------------------------------
\* str methods used on input lines
\* ------------------------------------------------------------------------
Lower(c) ==
    CASE c = "A" -> "a" [] c = "B" -> "b" [] c = "C" -> "c" [] c = "D" -> "d"
      [] c = "E" -> "e" [] c = "I" -> "i" [] c = "N" -> "n" [] c = "O" -> "o"
      [] c = "S" -> "s" [] c = "Y" -> "y" [] OTHER -> c

Upper(c) ==
    CASE c = "a" -> "A" [] c = "b" -> "B" [] c = "c" -> "C" [] c = "d" -> "D"
      [] c = "e" -> "E" [] c = "i" -> "I" [] c = "n" -> "N" [] c = "o" -> "O"
      [] c = "s" -> "S" [] c = "y" -> "Y" [] OTHER -> c

str_lower(t) == [i \in 1..Len(t) |-> Lower(t[i])]
str_upper(t) == [i \in 1..Len(t) |-> Upper(t[i])]

str_strip(t) ==
    LET keep == {i \in 1..Len(t) : ~IsWs(t[i])}
    IN  IF keep = {} THEN <<>> ELSE SubSeq(t, MinOf(keep), MaxOf(keep))

\* ------------------------------------------------------------------------
\* JSON texts of domain objects (what an agent writes when it answers with
\* the JSON of an object)
\* ------------------------------------------------------------------------
JKey(k)  == <<Q, k, Q, ":">>
JWord(w) == <<Q, w, Q>>
JStr(t)  == <<Q>> \o t \o <<Q>>
JBool(b) == IF b THEN <<"true">> ELSE <<"false">>

RECURSIVE JoinComma(_)
JoinComma(parts) ==
    IF parts = <<>> THEN <<>>
    ELSE IF Len(parts) = 1 THEN parts[1]
    ELSE parts[1] \o <<",">> \o JoinComma(Tail(parts))

QuestionJson(q) ==
    <<"{">> \o JKey("question_number") \o IntChars(q.question_number) \o <<",">>
    \o JKey("difficulty") \o JWord(q.difficulty) \o <<",">>
    \o JKey("correct_answer") \o JWord(q.correct_answer) \o <<",">>
    \o JKey("is_scenario_based") \o JBool(q.is_scenario_based) \o <<"}">>

QuizJson(quiz) ==
    <<"{">> \o JKey("questions") \o <<"[">>
    \o JoinComma([i \in 1..Len(quiz.questions) |-> QuestionJson(quiz.questions[i])])
    \o <<"]", "}">>

\* the members of a difficulty_distribution dict
RECURSIVE DistributionMembersJson(_, _)
DistributionMembersJson(dd, keys) ==
    IF keys = {} THEN <<>>
    ELSE LET k == CHOOSE x \in keys : TRUE
         IN  JKey(k) \o IntChars(dd[k])
             \o (IF keys = {k} THEN <<>> ELSE <<",">>)
             \o DistributionMembersJson(dd, keys \ {k})

\* a Quiz with every field written out
QuizDump(quiz) ==
    <<"{">> \o JKey("total_questions") \o IntChars(quiz.total_questions) \o <<",">>
    \o JKey("difficulty_distribution") \o <<"{">>
    \o DistributionMembersJson(quiz.difficulty_distribution,
                               DOMAIN quiz.difficulty_distribution)
    \o <<"}", ",">> \o JKey("questions") \o <<"[">>
    \o JoinComma([i \in 1..Len(quiz.questions) |-> QuestionJson(quiz.questions[i])])
    \o <<"]", "}">>

\* the same with an explicit, empty difficulty_distribution
QuizJsonNoDistribution(quiz) ==
    <<"{">> \o JKey("difficulty_distribution") \o <<"{", "}", ",">>
    \o JKey("questions") \o <<"[">>
    \o JoinComma([i \in 1..Len(quiz.questions) |-> QuestionJson(quiz.questions[i])])
    \o <<"]", "}">>

CuratedPlanJson(plan) == <<"{">> \o JKey("exam") \o JStr(plan.exam) \o <<"}">>

MilestoneJson(m) == <<"{">> \o JKey("percentage") \o IntChars(m.percentage) \o <<"}">>

StudyPlanJson(plan) ==
    <<"{">> \o JKey("plan_title") \o JStr(plan.plan_title) \o <<",">>
    \o JKey("total_duration_weeks") \o IntChars(plan.total_duration_weeks) \o <<",">>
    \o JKey("milestones") \o <<"[">>
    \o JoinComma([i \in 1..Len(plan.milestones) |-> MilestoneJson(plan.milestones[i])])
    \o <<"]", "}">>

DomainPerformanceJson(d) ==
    <<"{">> \o JKey("exam_weight") \o JStr(d.exam_weight) \o <<",">>
    \o JKey("score") \o IntChars(d.score) \o <<",">>
    \o JKey("status") \o JWord(d.status) \o <<"}">>

ExamPlanJson(plan) ==
    <<"{">> \o JKey("readiness_assessment") \o <<"{">>
    \o JKey("overall_score") \o IntChars(plan.overall_score) \o <<",">>
    \o JKey("critical_risks") \o <<"[">>
    \o JoinComma([i \in 1..Len(plan.critical_risks) |-> JStr(plan.critical_risks[i])])
    \o <<"]", ",">> \o JKey("domain_breakdown") \o <<"[">>
    \o JoinComma([i \in 1..Len(plan.domain_breakdown) |->
                     DomainPerformanceJson(plan.domain_breakdown[i])])
    \o <<"]", "}", ",">>
    \o JKey("recommendation") \o <<"{">> \o JKey("action") \o JWord(plan.action)
    \o <<"}", "}">>

DomainSummaryJson(d) ==
    <<"{">> \o JKey("score_percentage") \o IntChars(d.score_percentage) \o <<",">>
    \o JKey("status") \o JWord(d.status) \o <<"}">>

FeedbackJson(fb) ==
    <<"{">> \o JKey("score_percentage") \o IntChars(fb.score_percentage) \o <<",">>
    \o JKey("passed") \o JBool(fb.passed) \o <<",">>
    \o JKey("domain_performance") \o <<"[">>
    \o JoinComma([i \in 1..Len(fb.domain_performance) |->
                     DomainSummaryJson(fb.domain_performance[i])])
    \o <<"]", "}">>

Fence == <<BT, BT, BT>>

\* prose, a labelled fence, the body, the closing fence, prose
InFence(body) ==
    <<"a", " ">> \o Fence \o <<"j", "s", "o", "n", NL>> \o body \o <<NL>> \o Fence \o <<NL, "a">>

\* the body between prose, without a fence
InProse(body) == <<"a", " ">> \o body \o <<" ", "a">>

Prose == <<"a", " ", "b">>

\* ------------------------------------------------------------------------
\* the inputs of a run: what the agents answer and what stdin holds
\* ------------------------------------------------------------------------
None == [cls |-> "None"]

AgentResult(so, text) == [structured_output |-> so, text |-> text]

ShortQuizLen   == 2
PartialAnswers == 3
LongProseLen   == 501

LongProse == [i \in 1..LongProseLen |-> "a"]

SampleQuestion(n) ==
    [question_number   |-> n,
     difficulty        |-> IF n <= 3 THEN "easy" ELSE IF n <= 8 THEN "medium" ELSE "hard",
     correct_answer    |-> CASE n % 4 = 1 -> "A" [] n % 4 = 2 -> "B"
                             [] n % 4 = 3 -> "C" [] n % 4 = 0 -> "D",
     is_scenario_based |-> n <= 2]

\* ten questions in order, 3 easy, 5 medium, 2 hard, two scenarios
QuizA ==
    [cls |-> "Quiz", total_questions |-> 10,
     difficulty_distribution |-> DefaultDistribution,
     questions |-> [i \in 1..NumQuestions |-> SampleQuestion(i)]]

\* ten questions listed from the last to the first, all of them medium, one
\* scenario
QuizB ==
    [cls |-> "Quiz", total_questions |-> 10,
     difficulty_distribution |-> DefaultDistribution,
     questions |-> [i \in 1..NumQuestions |->
                      [SampleQuestion(NumQuestions + 1 - i) EXCEPT
                          !.difficulty = "medium",
                          !.is_scenario_based = (i = NumQuestions)]]]

\* a Quiz instance that breaks the length constraint of questions
QuizShort ==
    [cls |-> "Quiz", total_questions |-> 10,
     difficulty_distribution |-> DefaultDistribution,
     questions |-> [i \in 1..ShortQuizLen |-> SampleQuestion(ShortQuizLen + 1 - i)]]

CuratedA == [cls |-> "CuratedLearningPlan", exam |-> <<"A", "I">>]
CuratedB == [cls |-> "CuratedLearningPlan", exam |-> <<"A", "Z">>]
\* a plan whose exam name holds a closing brace and a fence
CuratedC == [cls |-> "CuratedLearningPlan", exam |-> <<"}">> \o Fence]
\* a plan whose exam name holds a fenced block that is no JSON
CuratedD == [cls |-> "CuratedLearningPlan",
             exam |-> Fence \o <<"{", "b", "}">> \o Fence]

\* milestones at the four canonical checkpoints
Quarters == <<[percentage |-> 25], [percentage |-> 50],
              [percentage |-> 75], [percentage |-> 100]>>

StudyA   == [cls |-> "StudyPlan", plan_title |-> <<"p">>, total_duration_weeks |-> 4,
             milestones |-> Quarters]
StudyB   == [cls |-> "StudyPlan", plan_title |-> <<"q">>, total_duration_weeks |-> 12,
             milestones |-> Quarters]
\* a StudyPlan instance that breaks total_duration_weeks >= 1
StudyBad == [cls |-> "StudyPlan", plan_title |-> <<"r">>, total_duration_weeks |-> 0,
             milestones |-> Quarters]
\* a plan of four milestones that stop at 80 percent
StudyEarly == [cls |-> "StudyPlan", plan_title |-> <<"s">>, total_duration_weeks |-> 6,
               milestones |-> <<[percentage |-> 20], [percentage |-> 40],
                                [percentage |-> 60], [percentage |-> 80]>>]

DomainSummary(score, status) == [score_percentage |-> score, status |-> status]

FeedbackGood == [cls |-> "AssessmentFeedback", score_percentage |-> 80, passed |-> TRUE,
                 domain_performance |-> <<DomainSummary(90, "strong"),
                                          DomainSummary(65, "adequate"),
                                          DomainSummary(40, "weak")>>]
\* an AssessmentFeedback instance whose passed contradicts its score
FeedbackOdd  == [cls |-> "AssessmentFeedback", score_percentage |-> 50, passed |-> TRUE,
                 domain_performance |-> <<DomainSummary(50, "weak")>>]

\* a domain of the exam: its weight in percent, the score and the status
Domain(weight, score, status) ==
    [exam_weight |-> IntChars(weight) \o <<"%">>, score |-> score, status |-> status]

PlanBook  == [cls |-> "ExamPlan", overall_score |-> 85, critical_risks |-> <<>>,
              domain_breakdown |-> <<Domain(30, 90, "strong"), Domain(15, 75, "strong")>>,
              action |-> "book_exam"]
PlanDelay == [cls |-> "ExamPlan", overall_score |-> 70, critical_risks |-> << <<"r">> >>,
              domain_breakdown |-> <<Domain(30, 50, "weak"), Domain(15, 65, "adequate")>>,
              action |-> "delay_and_reinforce"]
\* an ExamPlan instance that breaks overall_score <= 100
PlanBad   == [cls |-> "ExamPlan", overall_score |-> 120, critical_risks |-> <<>>,
              domain_breakdown |-> <<Domain(30, 90, "strong")>>,
              action |-> "book_exam"]

\* an ExamPlan that recommends booking with a heavy domain scored 40
PlanHasty == [cls |-> "ExamPlan", overall_score |-> 85, critical_risks |-> <<>>,
              domain_breakdown |-> <<Domain(30, 40, "weak"), Domain(15, 95, "strong")>>,
              action |-> "book_exam"]

CuratorResults ==
    { AgentResult(None, CuratedPlanJson(CuratedA)),
      AgentResult(None, InFence(CuratedPlanJson(CuratedA))),
      AgentResult(None, InFence(CuratedPlanJson(CuratedC))),
      AgentResult(None, InProse(CuratedPlanJson(CuratedD))),
      AgentResult(None, Prose),
      AgentResult(None, <<"{", "}">>),
      AgentResult(CuratedB, CuratedPlanJson(CuratedA)) }

PlannerResults ==
    { AgentResult(None, StudyPlanJson(StudyA)),
      AgentResult(None, InFence(StudyPlanJson(StudyA))),
      AgentResult(None, Prose),
      AgentResult(None, StudyPlanJson(StudyBad)),
      AgentResult(None, StudyPlanJson(StudyEarly)),
      AgentResult(StudyB, StudyPlanJson(StudyA)),
      AgentResult(StudyBad, Prose) }

EngagementResults ==
    { AgentResult(None, Prose), AgentResult(None, LongProse) }

AssessorResults ==
    { AgentResult(None, QuizJson(QuizA)),
      AgentResult(None, InFence(QuizJson(QuizB))),
      AgentResult(None, Prose),
      AgentResult(None, <<"{", "}">>),
      AgentResult(None, <<Q, "a", Q>>),
      AgentResult(None, QuizJsonNoDistribution(QuizA)),
      AgentResult(QuizB, QuizJson(QuizA)),
      AgentResult(QuizShort, Prose) }

EvaluatorResults ==
    { AgentResult(FeedbackGood, Prose),
      AgentResult(FeedbackOdd, Prose),
      AgentResult(None, FeedbackJson(FeedbackGood)),
      AgentResult(None, Prose) }

ExamPlannerResults ==
    { AgentResult(None, ExamPlanJson(PlanBook)),
      AgentResult(None, InFence(ExamPlanJson(PlanDelay))),
      AgentResult(None, Prose),
      AgentResult(None, ExamPlanJson(PlanBad)),
      AgentResult(None, ExamPlanJson(PlanHasty)),
      AgentResult(PlanDelay, ExamPlanJson(PlanBook)),
      AgentResult(PlanBad, Prose) }

ResultsOf(role) ==
    CASE role = "curator"      -> CuratorResults
      [] role = "planner"      -> PlannerResults
      [] role = "engagement"   -> EngagementResults
      [] role = "assessor"     -> AssessorResults
      [] role = "evaluator"    -> EvaluatorResults
      [] role = "exam_planner" -> ExamPlannerResults

\* a line typed at an answer prompt
TypedLine(i) ==
    CASE i % 5 = 1 -> <<"a">>
      [] i % 5 = 2 -> <<" ", "b", " ">>
      [] i % 5 = 3 -> <<"C">>
      [] i % 5 = 4 -> <<"e">>
      [] i % 5 = 0 -> <<>>

\* what stdin holds once the profile questions of get_user_input are
\* answered: nothing (a closed stdin), a rejection, an approval and then
\* end of file, an empty line, an approval with an answer for every
\* question, an approval with a few answers
InputScripts ==
    { <<>>,
      << <<"n", "o">> >>,
      << <<" ", "Y", "e", "s", " ">> >>,
      << <<>> >>,
      << <<"y">> >> \o [i \in 1..NumQuestions |-> TypedLine(i)],
      << <<"s", "i">> >> \o [i \in 1..PartialAnswers |-> TypedLine(i)] }

\* ------------------------------------------------------------------------
\* the run: run_complete_workflow as main() awaits it, with the six agents
\* ------------------------------------------------------------------------
Roles == {"curator", "planner", "engagement", "assessor", "evaluator", "exam_planner"}

\* the name each agent is created with (config["name"])
AgentName(role) ==
    CASE role = "curator"      -> "learning_path_curator"
      [] role = "planner"      -> "study_plan_generator"
      [] role = "engagement"   -> "engagement_agent"
      [] role = "assessor"     -> "assessment_agent"
      [] role = "evaluator"    -> "assessment_evaluator_agent"
      [] role = "exam_planner" -> "exam_plan_agent"

\* the participants listed with the planner first
PlannerFirst == <<"planner", "curator", "engagement">>

\* create_preparation_workflow: SequentialBuilder(participants=[...])
create_preparation_workflow == <<"curator", "planner", "engagement">>

UserMessage ==
    [role |-> "user", author_name |-> "None", text |-> <<"initial_prompt">>,
     structured_output |-> None]

AssistantMessage(role, r) ==
    [role |-> "assistant", author_name |-> AgentName(role), text |-> r.text,
     structured_output |-> r.structured_output]

VARIABLES
    pc,                 \* where the run is suspended
    outcome,            \* running, deferred, completed or failed
    error,              \* the exception that reached main()
    stdin,              \* the lines input() has not read yet
    inflight,           \* the agent whose invocation is in progress
    invocations,        \* the agents invoked so far, in order
    transcript,         \* the orchestrator's conversation so far
    conversation, curated_plan, study_plan, study_plan_summary,
    checkpoint_result,  \* the values human_checkpoint() returned
    quiz, user_answers, feedback,
    exam_plan,          \* plan of run_exam_planning
    shown,              \* the question numbers displayed, in order
    asked,              \* per answer recorded: the question it was asked for
    call_args,          \* per phase: what its function was called with
    prompt,             \* per phase: what the prompt given to its agent holds
    results,            \* per phase: the result its agent's run returned
    attributes,         \* the attributes run_exam_planning adds to its span
    debug_file,         \* debug_quiz_response.json in the working directory
    text_parsed,        \* the agents whose result text went to a JSON parser
    extraction,         \* per agent: how its object was obtained, or the error
    extract_calls,      \* the calls of extract_json_from_text and their results
    stdout,             \* the warnings and the summary printed so far
    trial,              \* a domain object taken through text and back
    TEMPERATURES,       \* AgentConfig.TEMPERATURES: name -> tenths
    prompt_files,       \* the names whose prompt file exists in PROMPTS_DIR
    agents,             \* create_all_agents: the agents created so far, by key
    startup,            \* create_all_agents: creating, ready, or the exception
    lookup,             \* the last call of an AgentConfig lookup and its result
    graded              \* the last call of grade_assessment and its result

vars == <<pc, outcome, error, stdin, inflight, invocations, transcript,
          conversation, curated_plan, study_plan, study_plan_summary,
          checkpoint_result, quiz, user_answers, feedback, exam_plan,
          shown, asked, call_args, prompt, results, attributes,
          debug_file, text_parsed, extraction, extract_calls, stdout,
          trial, TEMPERATURES, prompt_files, agents, startup, lookup, graded>>

\* the variables of a run of the workflow
runVars == <<pc, outcome, error, stdin, inflight, invocations, transcript,
             conversation, curated_plan, study_plan, study_plan_summary,
             checkpoint_result, quiz, user_answers, feedback, exam_plan,
             shown, asked, call_args, prompt, results, attributes,
             debug_file, text_parsed, extraction, extract_calls, stdout>>

\* the variables of the agent configuration and of the tools
libVars == <<TEMPERATURES, prompt_files, agents, startup, lookup, graded>>

prepVars  == <<conversation, curated_plan, study_plan, study_plan_summary>>
assessVars == <<quiz, user_answers, feedback, exam_plan, shown, asked, results,
               attributes>>

\* ---- Preparation ------------------------------------------------------
Payload(x) == [ok |-> TRUE, value |-> x.structured_output, via |-> "structured_output"]
FromText(r) == IF r.ok THEN [ok |-> TRUE, value |-> r.value, via |-> "text"] ELSE r

\* run_preparation_workflow, the curator's message: the payload when there
\* is one, else CuratedLearningPlan(**extract_json_from_text(msg.text))
CuratedPlanFromData(d) == IF ~d.ok THEN d ELSE FromText(CuratedLearningPlan(d.value))

CuratedPlanOf(msg) ==
    IF msg.structured_output # None THEN Payload(msg)
    ELSE The({CuratedPlanFromData(d) : d \in {extract_json_from_text(msg.text)}})

\* the planner's message: the payload when there is one, else
\* StudyPlan(**extract_json_from_text(msg.text))
StudyPlanFromData(d) == IF ~d.ok THEN d ELSE FromText(StudyPlan(d.value))

StudyPlanOf(msg) ==
    IF msg.structured_output # None THEN Payload(msg)
    ELSE The({StudyPlanFromData(d) : d \in {extract_json_from_text(msg.text)}})

Outcome(r) == IF r.ok THEN r.via ELSE r.err

\* a call of extract_json_from_text on an agent's text
ExtractCall(role, text) ==
    [role |-> role, text |-> text, result |-> extract_json_from_text(text)]

\* a failed extraction is caught, warned about, and leaves the plan as it was
KeepCurated(acc, msg, r) ==
    [acc EXCEPT !.curated_plan = IF r.ok THEN r.value ELSE @,
                !.extraction = [@ EXCEPT !["curator"] = Outcome(r)],
                !.text_parsed = IF msg.structured_output = None
                                THEN @ \cup {"curator"} ELSE @,
                !.extract_calls = IF msg.structured_output = None
                                  THEN @ \cup {ExtractCall("curator", msg.text)} ELSE @]

\* one handler around both extractions: a failed StudyPlan drops the
\* CuratedLearningPlan too
KeepStudyClobbers(acc, msg, r) ==
    [acc EXCEPT !.study_plan = IF r.ok THEN r.value ELSE @,
                !.curated_plan = IF r.ok THEN @ ELSE None,
                !.extraction = [@ EXCEPT !["planner"] = Outcome(r)],
                !.text_parsed = IF msg.structured_output = None
                                THEN @ \cup {"planner"} ELSE @,
                !.extract_calls = IF msg.structured_output = None
                                  THEN @ \cup {ExtractCall("planner", msg.text)} ELSE @]

KeepStudy(acc, msg, r) ==
    [acc EXCEPT !.study_plan = IF r.ok THEN r.value ELSE @,
                !.extraction = [@ EXCEPT !["planner"] = Outcome(r)],
                !.text_parsed = IF msg.structured_output = None
                                THEN @ \cup {"planner"} ELSE @,
                !.extract_calls = IF msg.structured_output = None
                                  THEN @ \cup {ExtractCall("planner", msg.text)} ELSE @]

\* the body of the loop over the conversation
PlanStep(msg, acc) ==
    IF msg.role # "assistant" THEN acc
    ELSE IF msg.author_name = "learning_path_curator"
    THEN The({KeepCurated(acc, msg, r) : r \in {CuratedPlanOf(msg)}})
    ELSE IF msg.author_name = "study_plan_generator"
    THEN The({KeepStudy(acc, msg, r) : r \in {StudyPlanOf(msg)}})
    ELSE acc

RECURSIVE PlanLoop(_, _, _)
PlanLoop(conv, i, acc) ==
    IF i > Len(conv) THEN acc
    ELSE The({PlanLoop(conv, i + 1, step) : step \in {PlanStep(conv[i], acc)}})

\* run_preparation_workflow after the event loop
run_preparation_workflow(conv, ext, parsed, calls) ==
    PlanLoop(conv, 1, [curated_plan |-> None, study_plan |-> None,
                       extraction |-> ext, text_parsed |-> parsed,
                       extract_calls |-> calls])

SummaryLimit == 500

RECURSIVE RawSummary(_, _)
RawSummary(conv, i) ==
    IF i > Len(conv) THEN <<>>
    ELSE (IF conv[i].author_name \in {"study_plan_generator", "engagement_agent"}
          THEN conv[i].text \o <<NL, NL>> ELSE <<>>) \o RawSummary(conv, i + 1)

Truncate(t) ==
    IF Len(t) > SummaryLimit THEN SubSeq(t, 1, SummaryLimit) \o <<".", ".", ".">> ELSE t

\* the summary without the curated-plan branch
StudyPlanContextRawOnly(conv, curated, study) ==
    IF study # None THEN StudyPlanSummary(study)
    ELSE IF Len(conv) > 0 THEN Truncate(RawSummary(conv, 1))
    ELSE <<>>

\* run_complete_workflow: the study plan summary for the assessment context
StudyPlanContext(conv, curated, study) ==
    IF study # None THEN StudyPlanSummary(study)
    ELSE IF curated # None THEN CuratedPlanSummary(curated)
    ELSE IF Len(conv) > 0 THEN Truncate(RawSummary(conv, 1))
    ELSE <<>>

\* ---- Checkpoint -------------------------------------------------------
YesWords == { <<"y", "e", "s">>, <<"y">>, <<"s", "i">>, <<"s", "í">> }

\* human_checkpoint: the answer read from stdin, approval when stdin is
\* closed (EOFError, OSError)
human_checkpoint(in) ==
    IF in = <<>> THEN TRUE ELSE str_lower(str_strip(Head(in))) \in YesWords

\* input(): the lines left once one is read
AfterInput(in) == IF in = <<>> THEN in ELSE Tail(in)

\* the rejection ignored: the assessment runs whatever the answer
AfterCheckpointProceeds(ready) == "assessment"

\* run_complete_workflow: "if not human_checkpoint(): ... return"
AfterCheckpoint(ready) == IF ready THEN "assessment" ELSE "return"

\* ---- Assessment -------------------------------------------------------
\* run_assessment: the quiz from the agent's result
OrExtracted(direct, text) ==
    IF direct.ok THEN direct ELSE extract_json_from_text(text)

QuizData(result) == OrExtracted(json_loads(result.text), result.text)

QuizFromData(d) == IF ~d.ok THEN d ELSE FromText(Quiz(d.value))

ParseQuiz(result) ==
    IF result.structured_output # None THEN Payload(result)
    ELSE QuizFromData(QuizData(result))

\* the checks that follow inside the same try block
Warnings(q, vd) ==
    IF ~vd.ok THEN vd
    ELSE [ok |-> TRUE,
          warnings |-> (IF vd.value THEN {} ELSE {"distribution_warning"})
                       \cup (IF validate_scenario_questions(q) THEN {}
                             ELSE {"scenario_warning"})]

QuizChecks(q) == Warnings(q, validate_distribution(q))

Checked(p, c) ==
    IF ~c.ok THEN c
    ELSE [ok |-> TRUE, value |-> p.value, via |-> p.via, warnings |-> c.warnings]

QuizParsed(p) == IF ~p.ok THEN p ELSE Checked(p, QuizChecks(p.value))

\* run_assessment up to its answer loop: the quiz, or the exception raised
QuizOutcome(result) == QuizParsed(ParseQuiz(result))

\* the answer loop, question i: the typed line, or the correct answer when
\* stdin is closed
AnswerOf(q, in, i) ==
    IF in = <<>> THEN << get_correct_answers(q)[i] >>
    ELSE str_upper(str_strip(Head(in)))

\* run_assessment_evaluation: the feedback from the agent's result; the
\* text path imports AssessmentFeedback from src.models, which does not
\* export it
ParseFeedback(result) ==
    IF result.structured_output # None THEN Payload(result) ELSE ImportError

\* run_exam_planning: the plan from the agent's result
ExamPlanFromData(d) == IF ~d.ok THEN d ELSE FromText(ExamPlan(d.value))

ParseExamPlan(result) ==
    IF result.structured_output # None THEN Payload(result)
    ELSE ExamPlanFromData(extract_json_from_text(result.text))

\* every phase function re-raising a failed extraction
OnExtractionFailureRaise(role) == "raise"

\* no phase function re-raising a failed extraction
OnExtractionFailureContinue(role) == "continue"

\* what a failed extraction does to the run, per phase function
OnExtractionFailure(role) == IF role = "assessor" THEN "raise" ELSE "continue"

\* ---- Agent configuration -------------------------------------------------
ValueError        == [ok |-> FALSE, err |-> "ValueError"]
FileNotFoundError == [ok |-> FALSE, err |-> "FileNotFoundError"]

\* AgentConfig.TEMPERATURES as the class body defines it, in tenths
RegisteredTemperatures ==
    ("learning_path_curator" :> 3) @@ ("study_plan_generator" :> 4)
    @@ ("engagement_agent" :> 6) @@ ("assessment_agent" :> 2)
    @@ ("exam_plan_agent" :> 3)

\* the get_temperature that answers an unregistered name with a default
get_temperature_defaulting(registry, agent_name) ==
    IF agent_name \in DOMAIN registry
    THEN [ok |-> TRUE, value |-> registry[agent_name]]
    ELSE [ok |-> TRUE, value |-> 3]

\* AgentConfig.get_temperature(agent_name)
get_temperature(registry, agent_name) ==
    IF agent_name \in DOMAIN registry
    THEN [ok |-> TRUE, value |-> registry[agent_name]]
    ELSE ValueError

\* AgentConfig.get_prompt(agent_name): the text of the prompt file
get_prompt(files, agent_name) ==
    IF agent_name \in files
    THEN [ok |-> TRUE, value |-> <<"prompt", agent_name>>]
    ELSE FileNotFoundError

\* the dict of get_agent_config once the temperature and the prompt are there
AgentConfigDict(agent_name, temp, instructions) ==
    IF ~temp.ok THEN temp
    ELSE IF ~instructions.ok THEN instructions
    ELSE [ok |-> TRUE,
          value |-> [name |-> agent_name, temperature |-> temp.value,
                     instructions |-> instructions.value]]

\* AgentConfig.get_agent_config(agent_name): the dict literal evaluates
\* get_temperature before get_prompt
get_agent_config(registry, files, agent_name) ==
    AgentConfigDict(agent_name, get_temperature(registry, agent_name),
                    get_prompt(files, agent_name))

\* create_all_agents: the keys in the order the dict literal creates them
CreatorOrder ==
    <<"curator", "planner", "engagement", "assessor", "evaluator", "exam_planner">>

\* the names the lookups are called with
LookupNames ==
    {AgentName(role) : role \in Roles} \cup {"assessment_evaluator", "nobody", ""}

NoCall == [call |-> "none"]

\* nothing of the configuration or of the tools is in use
LibraryAtRest ==
    /\ TEMPERATURES = RegisteredTemperatures
    /\ prompt_files = {}
    /\ agents = <<>>
    /\ startup = "none"
    /\ lookup = NoCall
    /\ graded = NoCall

\* ---- the steps of the run ---------------------------------------------
Init ==
    /\ pc = "preparation"
    /\ outcome = "running"
    /\ error = "none"
    /\ stdin \in InputScripts
    /\ inflight = "none"
    /\ invocations = <<>>
    /\ transcript = <<UserMessage>>
    /\ conversation = <<>>
    /\ curated_plan = None
    /\ study_plan = None
    /\ study_plan_summary = <<>>
    /\ checkpoint_result = <<>>
    /\ quiz = None
    /\ user_answers = <<>>
    /\ feedback = None
    /\ exam_plan = None
    /\ shown = <<>>
    /\ asked = <<>>
    /\ call_args = [r \in {} |-> r]
    /\ prompt = [r \in {} |-> r]
    /\ results = [r \in {} |-> r]
    /\ attributes = None
    /\ debug_file = None
    /\ text_parsed = {}
    /\ extraction = [r \in Roles \ {"engagement"} |-> "none"]
    /\ extract_calls = {}
    /\ stdout = {}
    /\ trial = None
    /\ LibraryAtRest

\* the exception caught and dropped where it was raised: the run goes on
RaiseSwallowed(e) ==
    /\ pc' = pc
    /\ outcome' = outcome
    /\ error' = e
    /\ inflight' = "none"

\* an exception leaves run_complete_workflow and is caught by main()
Raise(e) ==
    /\ pc' = "done"
    /\ outcome' = "failed"
    /\ error' = e
    /\ inflight' = "none"

\* the evaluation given the exam planner and the exam planning the evaluator
PhaseAgentSwapped(phase) ==
    CASE phase = "assessment"    -> "assessor"
      [] phase = "evaluation"    -> "exam_planner"
      [] phase = "exam_planning" -> "evaluator"

\* run_complete_workflow: the agent each phase function is given
PhaseAgent(phase) ==
    CASE phase = "assessment"    -> "assessor"
      [] phase = "evaluation"    -> "evaluator"
      [] phase = "exam_planning" -> "exam_planner"

\* run_complete_workflow: what each phase function is called with
AssessmentArgs(summary)       == [study_plan_summary |-> summary]
EvaluationArgs(q, answers)    == [quiz |-> q, user_answers |-> answers]
ExamPlanningArgs(q, answers)  == [quiz |-> q, user_answers |-> answers]

\* the i-th line of answers a prompt holds
StudentAnswer(answers, i) ==
    IF i <= Len(answers) THEN answers[i] ELSE <<"N", "/", "A">>

\* run_assessment_evaluation: the questions of the prompt, each with the
\* student's answer; without a quiz there is no question to list
EvaluationPrompt(q, answers) ==
    IF q = None THEN [questions |-> <<>>]
    ELSE [questions |->
            [i \in 1..Len(q.questions) |->
                [question_number |-> SortedQuestions(q)[i].question_number,
                 correct_answer  |-> SortedQuestions(q)[i].correct_answer,
                 student_answer  |-> StudentAnswer(answers, i)]]]

\* run_exam_planning: the assessment details and the questions of the
\* prompt, each with the student's answer and its result
ExamPlanningPrompt(q, answers) ==
    [total_questions |-> q.total_questions,
     difficulty_distribution |-> q.difficulty_distribution,
     questions |->
        [i \in 1..Len(q.questions) |->
            [question_number |-> SortedQuestions(q)[i].question_number,
             correct_answer  |-> SortedQuestions(q)[i].correct_answer,
             student_answer  |-> StudentAnswer(answers, i),
             result          |-> IF StudentAnswer(answers, i)
                                      = <<SortedQuestions(q)[i].correct_answer>>
                                 THEN "CORRECT" ELSE "INCORRECT"]]]

\* the prompt a phase function builds from its arguments
PromptOf(phase, args) ==
    CASE phase = "assessment"    -> [study_plan_summary |-> args.study_plan_summary]
      [] phase = "evaluation"    -> EvaluationPrompt(args.quiz, args.user_answers)
      [] phase = "exam_planning" -> ExamPlanningPrompt(args.quiz, args.user_answers)

\* the agent of the phase is run on the prompt p
Prompted(phase, p) ==
    [ph \in DOMAIN prompt \cup {phase} |-> IF ph = phase THEN p ELSE prompt[ph]]

\* the run_exam_planning that counts against the questions as listed
correct_count_as_listed(q, answers) ==
    Cardinality({i \in 1..Len(q.questions) :
                    /\ i <= Len(answers)
                    /\ answers[i] = <<q.questions[i].correct_answer>>})

\* run_exam_planning: correct_count
correct_count(q, answers) ==
    Cardinality({i \in 1..Len(q.questions) :
                    /\ i <= Len(answers)
                    /\ answers[i] = <<SortedQuestions(q)[i].correct_answer>>})

\* run_exam_planning: the attributes added before the prompt is built
ExamPlanningAttributes(q, answers) ==
    [quiz_questions  |-> Len(q.questions),
     correct_answers |-> correct_count(q, answers)]

\* the agent of the phase returned r
Returned(phase, r) ==
    [ph \in DOMAIN results \cup {phase} |-> IF ph = phase THEN r ELSE results[ph]]

\* the phase function is called with args
Called(phase, args) ==
    [p \in DOMAIN call_args \cup {phase} |-> IF p = phase THEN args ELSE call_args[p]]

\* the phase function is called with args and awaits the agent's run()
Invoke(role, phase, args) ==
    /\ pc' = phase
    /\ inflight' = role
    /\ invocations' = Append(invocations, role)
    /\ call_args' = Called(phase, args)
    /\ prompt' = Prompted(phase, PromptOf(phase, args))

Turns == Len(transcript) - 1

\* the sequential orchestrator invokes the next participant on the
\* conversation so far
OrchInvoke ==
    /\ UNCHANGED <<trial, libVars>>
    /\ pc = "preparation"
    /\ inflight = "none"
    /\ Turns < Len(create_preparation_workflow)
    /\ inflight' = create_preparation_workflow[Turns + 1]
    /\ invocations' = Append(invocations, create_preparation_workflow[Turns + 1])
    /\ UNCHANGED <<pc, outcome, error, stdin, transcript, prepVars,
                   checkpoint_result, assessVars, call_args, prompt, debug_file,
                   text_parsed, extraction, extract_calls, stdout>>

\* the participant returns and its turn is appended to the conversation
OrchTurn ==
    /\ UNCHANGED <<trial, libVars>>
    /\ pc = "preparation"
    /\ inflight # "none"
    /\ \E r \in ResultsOf(inflight) :
          transcript' = Append(transcript, AssistantMessage(inflight, r))
    /\ inflight' = "none"
    /\ UNCHANGED <<pc, outcome, error, stdin, invocations, prepVars,
                   checkpoint_result, assessVars, call_args, prompt, debug_file,
                   text_parsed, extraction, extract_calls, stdout>>

\* the invocation in progress raises: nothing catches it before main()
AgentRaises ==
    /\ UNCHANGED <<trial, libVars>>
    /\ inflight # "none"
    /\ Raise("AgentError")
    /\ UNCHANGED <<stdin, invocations, transcript, prepVars,
                   checkpoint_result, assessVars, call_args, prompt, debug_file,
                   text_parsed, extraction, extract_calls, stdout>>

\* the orchestrator completes: run_preparation_workflow takes the output
\* event, extracts the two plans and returns; run_complete_workflow builds
\* the summary and reaches the checkpoint prompt
PreparationDone ==
    /\ UNCHANGED <<trial, libVars>>
    /\ pc = "preparation"
    /\ inflight = "none"
    /\ Turns = Len(create_preparation_workflow)
    /\ \E res \in {run_preparation_workflow(transcript, extraction, text_parsed,
                                           extract_calls)} :
           /\ conversation' = transcript
           /\ curated_plan' = res.curated_plan
           /\ study_plan' = res.study_plan
           /\ extraction' = res.extraction
           /\ text_parsed' = res.text_parsed
           /\ extract_calls' = res.extract_calls
           /\ study_plan_summary' =
                 StudyPlanContext(transcript, res.curated_plan, res.study_plan)
           /\ stdout' = stdout
                 \cup (IF res.extraction["curator"] \in {"structured_output", "text"}
                       THEN {} ELSE {"curator_warning"})
                 \cup (IF res.extraction["planner"] \in {"structured_output", "text"}
                       THEN {} ELSE {"planner_warning"})
    /\ pc' = "checkpoint"
    /\ UNCHANGED <<outcome, error, stdin, inflight, invocations, transcript,
                   checkpoint_result, assessVars, call_args, prompt, debug_file>>

\* human_checkpoint() reads the answer; a rejection returns from
\* run_complete_workflow, an approval calls run_assessment, which awaits
\* the assessor
HumanCheckpoint ==
    /\ UNCHANGED <<trial, libVars>>
    /\ pc = "checkpoint"
    /\ checkpoint_result' = Append(checkpoint_result, human_checkpoint(stdin))
    /\ stdin' = AfterInput(stdin)
    /\ IF AfterCheckpoint(human_checkpoint(stdin)) = "return"
       THEN /\ pc' = "done"
            /\ outcome' = "deferred"
            /\ stdout' = stdout \cup {"deferred_message"}
            /\ UNCHANGED <<inflight, invocations, call_args, prompt>>
       ELSE /\ Invoke(PhaseAgent("assessment"), "assessment",
                      AssessmentArgs(study_plan_summary))
            /\ UNCHANGED <<outcome, stdout>>
    /\ UNCHANGED <<error, transcript, prepVars, assessVars, debug_file,
                   text_parsed, extraction, extract_calls>>

\* the question numbers in the order of the display loop
QuestionNumbers(q) ==
    [i \in 1..Len(q.questions) |-> SortedQuestions(q)[i].question_number]

\* the question the answer loop is at when i - 1 answers are recorded
QuestionAsked(q, i) == SortedQuestions(q)[i].question_number

\* run_assessment_evaluation builds its prompt and awaits the evaluator
StartEvaluation(q, answers) ==
    Invoke(PhaseAgent("evaluation"), "evaluation", EvaluationArgs(q, answers))

\* the assessor returns: run_assessment obtains the quiz or re-raises
AssessorReturns ==
    /\ UNCHANGED <<trial, libVars>>
    /\ pc = "assessment"
    /\ inflight = "assessor"
    /\ \E r \in ResultsOf("assessor") :
          \E res \in {QuizOutcome(r)} :
              /\ results' = Returned("assessment", r)
              /\ extraction' = [extraction EXCEPT !["assessor"] = Outcome(res)]
              /\ text_parsed' = IF r.structured_output = None
                                THEN text_parsed \cup {"assessor"} ELSE text_parsed
              /\ extract_calls' =
                    IF r.structured_output = None /\ ~json_loads(r.text).ok
                    THEN extract_calls \cup {ExtractCall("assessor", r.text)}
                    ELSE extract_calls
              /\ IF ~res.ok /\ OnExtractionFailure("assessor") = "raise"
                 THEN /\ Raise(res.err)
                      /\ debug_file' = IF res.err = "JSONDecodeError"
                                       THEN [cls |-> "File", text |-> r.text]
                                       ELSE debug_file
                      /\ UNCHANGED <<quiz, shown, stdout, invocations, call_args, prompt>>
                 ELSE /\ quiz' = IF res.ok THEN res.value ELSE None
                      /\ shown' = IF res.ok THEN QuestionNumbers(res.value) ELSE shown
                      /\ stdout' = IF res.ok THEN stdout \cup res.warnings ELSE stdout
                      /\ IF res.ok /\ Len(res.value.questions) > 0
                         THEN /\ pc' = "answers"
                              /\ inflight' = "none"
                              /\ UNCHANGED <<invocations, call_args, prompt>>
                         ELSE StartEvaluation(IF res.ok THEN res.value ELSE None, <<>>)
                      /\ UNCHANGED <<outcome, error, debug_file>>
    /\ UNCHANGED <<stdin, transcript, prepVars, checkpoint_result,
                   user_answers, asked, feedback, exam_plan, attributes>>

\* the answer loop reads one answer; after the last question run_assessment
\* returns and run_assessment_evaluation awaits the evaluator
AnswerInput ==
    /\ UNCHANGED <<trial, libVars>>
    /\ pc = "answers"
    /\ \E answer \in {AnswerOf(quiz, stdin, Len(user_answers) + 1)} :
           /\ user_answers' = Append(user_answers, answer)
           /\ asked' = Append(asked, [question_number |-> QuestionAsked(quiz, Len(user_answers) + 1),
                                      auto |-> stdin = <<>>])
           /\ stdin' = AfterInput(stdin)
           /\ IF Len(user_answers) + 1 < Len(quiz.questions)
              THEN UNCHANGED <<pc, inflight, invocations, call_args, prompt>>
              ELSE StartEvaluation(quiz, Append(user_answers, answer))
    /\ UNCHANGED <<outcome, error, transcript, prepVars, checkpoint_result,
                   quiz, shown, feedback, exam_plan, results, attributes,
                   debug_file, text_parsed,
                   extraction, extract_calls, stdout>>

\* the evaluator returns: run_assessment_evaluation returns the feedback or
\* None, and run_exam_planning awaits the exam planner
EvaluatorReturns ==
    /\ UNCHANGED <<trial, libVars>>
    /\ pc = "evaluation"
    /\ inflight = "evaluator"
    /\ \E r \in ResultsOf("evaluator") :
          \E res \in {ParseFeedback(r)} :
              /\ results' = Returned("evaluation", r)
              /\ extraction' = [extraction EXCEPT !["evaluator"] = Outcome(res)]
              /\ feedback' = IF res.ok THEN res.value ELSE None
              /\ stdout' = IF res.ok THEN stdout ELSE stdout \cup {"feedback_error"}
              /\ IF ~res.ok /\ OnExtractionFailure("evaluator") = "raise"
                 THEN /\ Raise(res.err)
                      /\ UNCHANGED <<invocations, call_args, prompt, attributes>>
                 ELSE IF Len(quiz.questions) = 0
                 THEN /\ Raise("ZeroDivisionError")
                      /\ UNCHANGED attributes
                      /\ call_args' = Called("exam_planning",
                                             ExamPlanningArgs(quiz, user_answers))
                      /\ UNCHANGED <<invocations, prompt>>
                 ELSE /\ Invoke(PhaseAgent("exam_planning"), "exam_planning",
                                ExamPlanningArgs(quiz, user_answers))
                      /\ attributes' = ExamPlanningAttributes(quiz, user_answers)
                      /\ UNCHANGED <<outcome, error>>
    /\ UNCHANGED <<stdin, transcript, prepVars, checkpoint_result, quiz,
                   user_answers, shown, asked, exam_plan, debug_file, text_parsed,
                   extract_calls>>

\* the exam planner returns: run_exam_planning shows the plan or the error,
\* and run_complete_workflow prints the session summary and returns
ExamPlannerReturns ==
    /\ UNCHANGED <<trial, libVars>>
    /\ pc = "exam_planning"
    /\ inflight = "exam_planner"
    /\ \E r \in ResultsOf("exam_planner") :
          \E res \in {ParseExamPlan(r)} :
              /\ results' = Returned("exam_planning", r)
              /\ extraction' = [extraction EXCEPT !["exam_planner"] = Outcome(res)]
              /\ text_parsed' = IF r.structured_output = None
                                THEN text_parsed \cup {"exam_planner"} ELSE text_parsed
              /\ extract_calls' =
                    IF r.structured_output = None
                    THEN extract_calls \cup {ExtractCall("exam_planner", r.text)}
                    ELSE extract_calls
              /\ exam_plan' = IF res.ok THEN res.value ELSE None
              /\ IF ~res.ok /\ OnExtractionFailure("exam_planner") = "raise"
                 THEN /\ Raise(res.err)
                      /\ UNCHANGED stdout
                 ELSE /\ pc' = "done"
                      /\ outcome' = "completed"
                      /\ inflight' = "none"
                      /\ stdout' = stdout \cup {"session_completed"}
                              \cup (IF res.ok THEN {} ELSE {"exam_plan_error"})
                      /\ UNCHANGED error
    /\ UNCHANGED <<stdin, invocations, transcript, prepVars, checkpoint_result,
                   quiz, user_answers, shown, asked, feedback, call_args, prompt,
                   attributes, debug_file>>

Next ==
    \/ OrchInvoke
    \/ OrchTurn
    \/ AgentRaises
    \/ PreparationDone
    \/ HumanCheckpoint
    \/ AssessorReturns
    \/ AnswerInput
    \/ EvaluatorReturns
    \/ ExamPlannerReturns

Spec == Init /\ [][Next]_vars

\* ------------------------------------------------------------------------
\* the schemas by themselves: a domain object is written as JSON text, the
\* text is extracted, the data is given to the schema, and the methods of
\* the object built are called
\* ------------------------------------------------------------------------
Schemas == {"Quiz", "CuratedLearningPlan", "StudyPlan", "AssessmentFeedback", "ExamPlan"}

\* the difficulty of question n under a pattern of difficulties
LevelOf(pattern, n) ==
    CASE pattern = "standard" -> (IF n <= 3 THEN "easy" ELSE IF n <= 8 THEN "medium" ELSE "hard")
      [] pattern = "medium"   -> "medium"
      [] pattern = "shifted"  -> (IF n <= 4 THEN "easy" ELSE IF n <= 8 THEN "medium" ELSE "hard")

\* difficulty_distribution dicts a Quiz can hold
AllMedium == [d \in DifficultyLevel |-> IF d = "medium" THEN 10 ELSE 0]
Shifted   == [d \in DifficultyLevel |-> IF d = "hard" THEN 2 ELSE 4]
Distributions == {DefaultDistribution, AllMedium, Shifted, EmptyDict}

\* ten questions, listed downwards or upwards, with the difficulties of a
\* pattern and the first `scenarios` questions scenario-based
QuizOf(downwards, pattern, dd, scenarios) ==
    [cls |-> "Quiz", total_questions |-> 10, difficulty_distribution |-> dd,
     questions |->
        [i \in 1..NumQuestions |->
            [question_number   |-> IF downwards THEN NumQuestions + 1 - i ELSE i,
             difficulty        |-> LevelOf(pattern, IF downwards THEN NumQuestions + 1 - i ELSE i),
             correct_answer    |-> SampleQuestion(IF downwards THEN NumQuestions + 1 - i ELSE i).correct_answer,
             is_scenario_based |-> i <= scenarios]]]

Quizzes ==
    { QuizOf(dw, pt, dd, sc) : dw \in BOOLEAN, pt \in {"standard", "medium", "shifted"},
                                dd \in Distributions, sc \in {1, 2} }

ExamNames == { <<"A", "I">>, <<"A", "Z">>, <<"}">> \o Fence, <<"{", " ", "}">>, <<>> }

CuratedPlans == { [cls |-> "CuratedLearningPlan", exam |-> e] : e \in ExamNames }

StudyPlans ==
    { [cls |-> "StudyPlan", plan_title |-> title, total_duration_weeks |-> w,
       milestones |-> ms] :
         title \in { <<"p">>, <<>> }, w \in {1, 4, 52},
         ms \in { Quarters, StudyEarly.milestones, Quarters \o <<[percentage |-> 0]>> } }

Feedbacks ==
    { [cls |-> "AssessmentFeedback", score_percentage |-> s, passed |-> b,
       domain_performance |-> <<DomainSummary(d, st)>>] :
         s \in {0, 69, 70, 100}, b \in BOOLEAN, d \in {59, 60, 70}, st \in DomainStatus }

ExamPlans ==
    { [cls |-> "ExamPlan", overall_score |-> s, critical_risks |-> rs,
       domain_breakdown |-> <<Domain(w, d, "weak"), Domain(10, 90, "strong")>>,
       action |-> a] :
         s \in {50, 79, 80, 100}, rs \in { <<>>, << <<"r">> >> },
         w \in {20, 25}, d \in {59, 60}, a \in RecommendedAction }

ObjectsOf(schema) ==
    CASE schema = "Quiz"                -> Quizzes
      [] schema = "CuratedLearningPlan" -> CuratedPlans
      [] schema = "StudyPlan"           -> StudyPlans
      [] schema = "AssessmentFeedback"  -> Feedbacks
      [] schema = "ExamPlan"            -> ExamPlans

\* the object as JSON text, every field written out
ToJson(schema, obj) ==
    CASE schema = "Quiz"                -> QuizDump(obj)
      [] schema = "CuratedLearningPlan" -> CuratedPlanJson(obj)
      [] schema = "StudyPlan"           -> StudyPlanJson(obj)
      [] schema = "AssessmentFeedback"  -> FeedbackJson(obj)
      [] schema = "ExamPlan"            -> ExamPlanJson(obj)

\* S(**data)
Construct(schema, data) ==
    CASE schema = "Quiz"                -> Quiz(data)
      [] schema = "CuratedLearningPlan" -> CuratedLearningPlan(data)
      [] schema = "StudyPlan"           -> StudyPlan(data)
      [] schema = "AssessmentFeedback"  -> AssessmentFeedback(data)
      [] schema = "ExamPlan"            -> ExamPlan(data)

\* AssessmentFeedback.get_weak_domains(), get_strong_domains()
get_weak_domains(fb)   == SelectSeq(fb.domain_performance, LAMBDA d : d.status = "weak")
get_strong_domains(fb) == SelectSeq(fb.domain_performance, LAMBDA d : d.status = "strong")

\* ExamPlan.is_ready_to_book()
is_ready_to_book(plan) == plan.action = "book_exam"

\* the methods of an object and what they return
MethodsOf(schema, obj) ==
    CASE schema = "Quiz" ->
            [validate_distribution       |-> validate_distribution(obj),
             validate_scenario_questions |-> validate_scenario_questions(obj),
             get_correct_answers         |-> get_correct_answers(obj)]
      [] schema = "CuratedLearningPlan" -> [summary_text |-> CuratedPlanSummary(obj)]
      [] schema = "StudyPlan"           -> [summary_text |-> StudyPlanSummary(obj)]
      [] schema = "AssessmentFeedback" ->
            [get_weak_domains   |-> get_weak_domains(obj),
             get_strong_domains |-> get_strong_domains(obj)]
      [] schema = "ExamPlan" -> [is_ready_to_book |-> is_ready_to_book(obj)]

Trial(schema, obj) ==
    [schema |-> schema, obj |-> obj, step |-> "object", text |-> <<>>,
     data |-> None, built |-> None, methods |-> None]

SchemaInit ==
    /\ pc = "schema"
    /\ outcome = "running"
    /\ error = "none"
    /\ stdin = <<>>
    /\ inflight = "none"
    /\ invocations = <<>>
    /\ transcript = <<UserMessage>>
    /\ conversation = <<>>
    /\ curated_plan = None
    /\ study_plan = None
    /\ study_plan_summary = <<>>
    /\ checkpoint_result = <<>>
    /\ quiz = None
    /\ user_answers = <<>>
    /\ feedback = None
    /\ exam_plan = None
    /\ shown = <<>>
    /\ asked = <<>>
    /\ call_args = [r \in {} |-> r]
    /\ prompt = [r \in {} |-> r]
    /\ results = [r \in {} |-> r]
    /\ attributes = None
    /\ debug_file = None
    /\ text_parsed = {}
    /\ extraction = [r \in Roles \ {"engagement"} |-> "none"]
    /\ extract_calls = {}
    /\ stdout = {}
    /\ \E schema \in Schemas : \E obj \in ObjectsOf(schema) : trial = Trial(schema, obj)
    /\ LibraryAtRest

\* the object is written as JSON text
Serialize ==
    /\ trial.step = "object"
    /\ trial' = [trial EXCEPT !.step = "text", !.text = ToJson(trial.schema, trial.obj)]
    /\ UNCHANGED <<runVars, libVars>>

\* extract_json_from_text(text)
Extract ==
    /\ trial.step = "text"
    /\ trial' = [trial EXCEPT !.step = "data", !.data = extract_json_from_text(trial.text)]
    /\ UNCHANGED <<runVars, libVars>>

\* S(**data), when the extraction returned
Build ==
    /\ trial.step = "data"
    /\ trial.data.ok
    /\ trial' = [trial EXCEPT !.step = "built",
                              !.built = Construct(trial.schema, trial.data.value)]
    /\ UNCHANGED <<runVars, libVars>>

\* the methods of the object built are called
CallMethods ==
    /\ trial.step = "built"
    /\ trial.built.ok
    /\ trial' = [trial EXCEPT !.step = "called",
                              !.methods = MethodsOf(trial.schema, trial.built.value)]
    /\ UNCHANGED <<runVars, libVars>>

SchemaNext ==
    \/ Serialize
    \/ Extract
    \/ Build
    \/ CallMethods

SchemaSpec == SchemaInit /\ [][SchemaNext]_vars

\* ------------------------------------------------------------------------
\* the startup: main() calls create_all_agents, whose creators ask
\* AgentConfig for their configuration; the prompt files present are the
\* environment's
\* ------------------------------------------------------------------------
StartupInit ==
    /\ pc = "startup"
    /\ outcome = "running"
    /\ error = "none"
    /\ stdin = <<>>
    /\ inflight = "none"
    /\ invocations = <<>>
    /\ transcript = <<UserMessage>>
    /\ conversation = <<>>
    /\ curated_plan = None
    /\ study_plan = None
    /\ study_plan_summary = <<>>
    /\ checkpoint_result = <<>>
    /\ quiz = None
    /\ user_answers = <<>>
    /\ feedback = None
    /\ exam_plan = None
    /\ shown = <<>>
    /\ asked = <<>>
    /\ call_args = [r \in {} |-> r]
    /\ prompt = [r \in {} |-> r]
    /\ results = [r \in {} |-> r]
    /\ attributes = None
    /\ debug_file = None
    /\ text_parsed = {}
    /\ extraction = [r \in Roles \ {"engagement"} |-> "none"]
    /\ extract_calls = {}
    /\ stdout = {}
    /\ trial = None
    /\ TEMPERATURES = RegisteredTemperatures
    /\ prompt_files \in SUBSET {AgentName(role) : role \in Roles}
    /\ agents = <<>>
    /\ startup = "creating"
    /\ lookup = NoCall
    /\ graded = NoCall

\* create_all_agents: the next creator asks for its configuration and makes
\* its agent; an exception leaves create_all_agents, and after the last
\* creator the dict is returned
CreateAgent ==
    /\ startup = "creating"
    /\ Len(agents) < Len(CreatorOrder)
    /\ \E res \in {get_agent_config(TEMPERATURES, prompt_files,
                                    AgentName(CreatorOrder[Len(agents) + 1]))} :
          IF res.ok
          THEN /\ agents' = Append(agents, [key |-> CreatorOrder[Len(agents) + 1],
                                            config |-> res.value])
               /\ startup' = IF Len(agents) + 1 = Len(CreatorOrder)
                             THEN "ready" ELSE "creating"
          ELSE /\ startup' = res.err
               /\ UNCHANGED agents
    /\ UNCHANGED <<runVars, trial, TEMPERATURES, prompt_files, lookup, graded>>

\* AgentConfig.get_temperature(name) is called
GetTemperature ==
    /\ \E name \in LookupNames :
          lookup' = [call |-> "get_temperature", name |-> name,
                     result |-> get_temperature(TEMPERATURES, name)]
    /\ UNCHANGED <<runVars, trial, TEMPERATURES, prompt_files, agents, startup, graded>>

\* AgentConfig.get_agent_config(name) is called
GetAgentConfig ==
    /\ \E name \in LookupNames :
          lookup' = [call |-> "get_agent_config", name |-> name,
                     result |-> get_agent_config(TEMPERATURES, prompt_files, name)]
    /\ UNCHANGED <<runVars, trial, TEMPERATURES, prompt_files, agents, startup, graded>>

StartupNext ==
    \/ CreateAgent
    \/ GetTemperature
    \/ GetAgentConfig

StartupSpec == StartupInit /\ [][StartupNext]_vars

\* ------------------------------------------------------------------------
\* the properties of the run
\* ------------------------------------------------------------------------
Invoked(role) == \E i \in 1..Len(invocations) : invocations[i] = role

\* the extraction of the agent's object was attempted and raised
Failed(role) == extraction[role] \notin {"none", "structured_output", "text"}

AgentOrder ==
    <<"curator", "planner", "engagement", "assessor", "evaluator", "exam_planner">>

\* C1: once the Human Checkpoint has returned false the run is over, with
\* the deferred outcome and no error, and neither the assessor, the
\* evaluator nor the exam planner is ever invoked: there is no quiz and no
\* answer
C1_CheckpointRejectionDefers ==
    (checkpoint_result # <<>> /\ ~checkpoint_result[1]) =>
        /\ pc = "done"
        /\ outcome = "deferred"
        /\ error = "none"
        /\ inflight = "none"
        /\ ~Invoked("assessor") /\ ~Invoked("evaluator") /\ ~Invoked("exam_planner")
        /\ quiz = None
        /\ user_answers = <<>>

C1_Witness ==
    /\ checkpoint_result = <<FALSE>>
    /\ outcome = "deferred"
    /\ invocations = <<"curator", "planner", "engagement">>

\* C2: the agents invoked so far are a prefix of curator, planner,
\* engagement, assessor, evaluator, exam planner (so each is invoked at most
\* once, also after a failed extraction), and the assessor is invoked only
\* when the checkpoint has returned true
C2_InvocationsArePrefix ==
    /\ Len(invocations) <= Len(AgentOrder)
    /\ \A i \in 1..Len(invocations) : invocations[i] = AgentOrder[i]
    /\ Invoked("assessor") => checkpoint_result = <<TRUE>>

C2_Witness ==
    /\ invocations = AgentOrder
    /\ Failed("curator") /\ Failed("planner") /\ Failed("evaluator")
    /\ checkpoint_result = <<TRUE>>

\* the turn of a participant is in the orchestrator's transcript
TurnAppended(role) ==
    \E j \in 1..Len(transcript) : transcript[j].author_name = AgentName(role)

\* the invocations the orchestrator has started
Started == Cardinality({i \in 1..Len(invocations) :
                           invocations[i] \in {"curator", "planner", "engagement"}})

\* C3: in the Preparation orchestration the planner is invoked only once
\* the curator's turn is in the transcript and the engagement agent only
\* once the planner's turn is, and while the orchestration runs at most one
\* of the invocations started has not yet returned its turn
C3_SequentialOrdering ==
    /\ Invoked("planner") => TurnAppended("curator")
    /\ Invoked("engagement") => TurnAppended("curator") /\ TurnAppended("planner")
    /\ pc = "preparation" => Started - Turns \in {0, 1}
    /\ pc = "preparation" => (Started - Turns = 1 <=> inflight # "none")

C3_Witness ==
    /\ pc = "preparation"
    /\ inflight = "engagement"
    /\ Turns = 2
    /\ TurnAppended("planner")

\* C4: an agent invocation that raises fails the run: the error reaches
\* main(), the raising step invokes no agent (nothing is retried), and from
\* then on nothing happens, no later phase and no invocation
C4_AgentErrorIsFatal ==
    /\ [](error = "AgentError" =>
            pc = "done" /\ outcome = "failed" /\ inflight = "none")
    /\ [][error' = "AgentError" => invocations' = invocations]_vars
    /\ [][error # "AgentError"]_vars

C4_Witness ==
    /\ error = "AgentError"
    /\ outcome = "failed"
    /\ invocations = <<"curator", "planner", "engagement", "assessor", "evaluator">>
    /\ exam_plan = None

\* C5: when the AssessmentFeedback cannot be extracted the evaluation
\* returns None and raises nothing, and run_exam_planning is called with the
\* quiz and the answers the evaluation was called with
C5_EvaluationFailureIsolated ==
    Failed("evaluator") =>
        /\ feedback = None
        /\ error \in {"none", "AgentError"}
        /\ Invoked("exam_planner")
        /\ "exam_planning" \in DOMAIN call_args
        /\ call_args["exam_planning"].quiz = quiz
        /\ call_args["exam_planning"].user_answers = user_answers
        /\ call_args["exam_planning"].quiz = call_args["evaluation"].quiz
        /\ call_args["exam_planning"].user_answers = call_args["evaluation"].user_answers

C5_Witness ==
    /\ Failed("evaluator")
    /\ inflight = "exam_planner"
    /\ Len(user_answers) = NumQuestions

\* C6 as stated: a run is failed only by a failed agent invocation; a
\* failed extraction, the Quiz included, never is what aborts it
C6_OnlyInvocationFailureAborts ==
    outcome = "failed" => error = "AgentError"

\* C6: a failure to obtain the Quiz aborts the run with that error before
\* any answer is read or the evaluator invoked; a failed extraction of a
\* plan, of the feedback or of the exam plan never is what aborts the run,
\* and a run whose exam plan could not be extracted completes
C6_QuizFailureAborts ==
    /\ Failed("assessor") =>
          /\ pc = "done" /\ outcome = "failed" /\ error = extraction["assessor"]
          /\ quiz = None /\ user_answers = <<>> /\ ~Invoked("evaluator")
    /\ (outcome = "failed" /\ error # "AgentError") => Failed("assessor")
    /\ Failed("exam_planner") =>
          /\ pc = "done" /\ outcome = "completed" /\ error = "none"
          /\ "session_completed" \in stdout

C6_Witness ==
    /\ Failed("assessor")
    /\ Failed("curator")
    /\ outcome = "failed"
    /\ error = "ValidationError"

\* the plan a Preparation turn yields by itself
PlanOrNone(r) == IF r.ok THEN r.value ELSE None

\* C7: once run_preparation_workflow has returned, the run has reached the
\* Human Checkpoint, a plan whose extraction failed is None, and each plan
\* is what its own turn yields, whatever happened to the other
C7_PreparationFailureIsolated ==
    conversation # <<>> =>
        /\ pc = "checkpoint" \/ checkpoint_result # <<>>
        /\ Failed("curator") => curated_plan = None
        /\ Failed("planner") => study_plan = None
        /\ curated_plan = PlanOrNone(CuratedPlanOf(conversation[2]))
        /\ study_plan = PlanOrNone(StudyPlanOf(conversation[3]))

C7_Witness ==
    /\ pc = "checkpoint"
    /\ Failed("planner")
    /\ study_plan = None
    /\ curated_plan = CuratedA

\* the text of the planner's and the engagement agent's turns
RawTurns == conversation[3].text \o <<NL, NL>> \o conversation[4].text \o <<NL, NL>>

\* C8 as stated: when the StudyPlan extraction has failed the context the
\* assessment is called with is the raw text of the turns, whole or cut
C8_ContextIsRawText ==
    ("assessment" \in DOMAIN call_args /\ Failed("planner")) =>
        call_args["assessment"].study_plan_summary
            \in {RawTurns}
                \cup (IF Len(RawTurns) > SummaryLimit
                      THEN {SubSeq(RawTurns, 1, SummaryLimit) \o <<".", ".", ".">>}
                      ELSE {})

\* C8: when the StudyPlan extraction has failed the context the assessment
\* is called with is the summary of the CuratedLearningPlan if there is one,
\* and else the raw text of the planner's and engagement agent's turns, cut
\* to 500 characters and "..." when longer
C8_ContextFallsBack ==
    ("assessment" \in DOMAIN call_args /\ Failed("planner")) =>
        call_args["assessment"].study_plan_summary =
            IF curated_plan # None THEN <<"Exam: ">> \o curated_plan.exam \o <<NL>>
            ELSE IF Len(RawTurns) > SummaryLimit
                 THEN SubSeq(RawTurns, 1, SummaryLimit) \o <<".", ".", ".">>
                 ELSE RawTurns

C8_Witness ==
    /\ "assessment" \in DOMAIN call_args
    /\ Failed("planner")
    /\ Failed("curator")
    /\ Len(call_args["assessment"].study_plan_summary) = SummaryLimit + 3

\* the index after a fence at p and the label json if it follows
AfterOpening(t, p) == IF HasLabel(t, p + 3) THEN p + 7 ELSE p + 3

\* the JSON objects held by the fenced code blocks of t: between an opening
\* fence at p and a closing fence at q the text is one JSON object
FencedObjects(t) ==
    { json_loads(SubSeq(t, AfterOpening(t, pq[1]), pq[2] - 1)).value :
        pq \in { x \in (1..Len(t)) \X (1..Len(t)) :
                    /\ IsFence(t, x[1]) /\ IsFence(t, x[2])
                    /\ AfterOpening(t, x[1]) <= x[2]
                    /\ json_loads(SubSeq(t, AfterOpening(t, x[1]), x[2] - 1)).ok
                    /\ json_loads(SubSeq(t, AfterOpening(t, x[1]), x[2] - 1)).value.kind
                          = "dict" } }

\* C9: whenever extract_json_from_text was called on a text that is not
\* JSON and has a fenced code block holding a JSON object, it returned an
\* object that a fenced block of the text holds
C9_FencedObjectExtracted ==
    \A c \in extract_calls :
        (~json_loads(c.text).ok /\ FencedObjects(c.text) # {}) =>
            c.result.ok /\ c.result.value \in FencedObjects(c.text)

\* the constraints of the schemas on the fields followed
ValidQuiz(q) ==
    /\ Len(q.questions) = NumQuestions
    /\ \A i \in 1..Len(q.questions) : q.questions[i].question_number \in 1..10
ValidStudyPlan(p) == p.total_duration_weeks \in 1..52
ValidExamPlan(p) == p.overall_score \in 0..100

\* C10: an object taken from a native payload satisfies its schema, and the
\* text of a result that carried a payload went to no JSON parser
C10_PayloadValidated ==
    /\ extraction["planner"] = "structured_output" =>
          ValidStudyPlan(study_plan) /\ "planner" \notin text_parsed
    /\ extraction["curator"] = "structured_output" => "curator" \notin text_parsed
    /\ extraction["assessor"] = "structured_output" =>
          ValidQuiz(quiz) /\ "assessor" \notin text_parsed
    /\ extraction["evaluator"] = "structured_output" => "evaluator" \notin text_parsed
    /\ extraction["exam_planner"] = "structured_output" =>
          ValidExamPlan(exam_plan) /\ "exam_planner" \notin text_parsed

C12_TenQuestionsWarningsOnly ==
    /\ pc = "answers" => Len(quiz.questions) = NumQuestions
    /\ stdout \cap {"distribution_warning", "scenario_warning"} # {} => quiz # None
    /\ extraction["assessor"] # "KeyError"

\* C13: validate_distribution() of a Quiz returns True exactly when its
\* questions are 3 easy, 5 medium and 2 hard, whatever the quiz's own
\* difficulty_distribution holds
C13_DistributionIsFixed ==
    (trial.step = "called" /\ trial.schema = "Quiz") =>
        trial.methods.validate_distribution =
            [ok |-> TRUE,
             value |-> /\ CountDifficulty(trial.obj.questions, "easy") = 3
                       /\ CountDifficulty(trial.obj.questions, "medium") = 5
                       /\ CountDifficulty(trial.obj.questions, "hard") = 2]

\* the questions of a prompt pair the recorded answers with the questions
\* they were asked for
PairedAsAsked(questions) ==
    /\ Len(questions) = Len(asked)
    /\ \A i \in 1..Len(asked) :
          /\ questions[i].question_number = asked[i].question_number
          /\ questions[i].student_answer = user_answers[i]

\* C14: once the answers are collected user_answers has one entry per
\* question of the quiz, entry i being the answer to the i-th question in
\* ascending question_number order; the questions were displayed in that
\* order, an automatic answer is the correct answer of the question it
\* stands for, and the prompts of the evaluator and of the exam planner pair
\* answer i with the same question
C14_AnswersAlignedByQuestionOrder ==
    "evaluation" \in DOMAIN prompt =>
        /\ Len(user_answers) = Len(quiz.questions)
        /\ Len(asked) = Len(user_answers)
        /\ \A i, j \in 1..Len(asked) :
              i < j => asked[i].question_number <= asked[j].question_number
        /\ \A k \in 1..Len(quiz.questions) :
              Cardinality({i \in 1..Len(asked) :
                              asked[i].question_number = quiz.questions[k].question_number})
              = Cardinality({i \in 1..Len(quiz.questions) :
                              quiz.questions[i].question_number = quiz.questions[k].question_number})
        /\ shown = [i \in 1..Len(asked) |-> asked[i].question_number]
        /\ \A i \in 1..Len(asked) :
              asked[i].auto =>
                 \E k \in 1..Len(quiz.questions) :
                    /\ quiz.questions[k].question_number = asked[i].question_number
                    /\ user_answers[i] = <<quiz.questions[k].correct_answer>>
        /\ PairedAsAsked(prompt["evaluation"].questions)
        /\ "exam_planning" \in DOMAIN prompt =>
              PairedAsAsked(prompt["exam_planning"].questions)

C14_Witness ==
    /\ outcome = "completed"
    /\ "exam_planning" \in DOMAIN prompt
    /\ Len(quiz.questions) = NumQuestions
    /\ quiz.questions[1].question_number = NumQuestions
    /\ \E i, j \in 1..Len(asked) : ~asked[i].auto /\ asked[j].auto
    /\ user_answers[NumQuestions] = <<quiz.questions[1].correct_answer>>

\* C15: an AssessmentFeedback returned by run_assessment_evaluation has
\* passed true exactly when its score_percentage is at least 70
C15_PassedIffSeventy ==
    feedback # None => (feedback.passed <=> feedback.score_percentage >= 70)

\* the status the score of a domain stands for
StatusOfScore(score) ==
    IF score >= 70 THEN "strong" ELSE IF score >= 60 THEN "adequate" ELSE "weak"

\* C16: in an AssessmentFeedback the schema accepted, every
\* domain_performance entry has the status of its score (strong from 70,
\* adequate from 60 to below 70, weak below 60), get_weak_domains() returns
\* exactly the entries scoring below 60 and get_strong_domains() exactly
\* those scoring at least 70
C16_DomainStatusFollowsScore ==
    (trial.step = "called" /\ trial.schema = "AssessmentFeedback") =>
        /\ \A i \in 1..Len(trial.built.value.domain_performance) :
              trial.built.value.domain_performance[i].status =
                 StatusOfScore(trial.built.value.domain_performance[i].score_percentage)
        /\ trial.methods.get_weak_domains =
              SelectSeq(trial.built.value.domain_performance,
                        LAMBDA d : d.score_percentage < 60)
        /\ trial.methods.get_strong_domains =
              SelectSeq(trial.built.value.domain_performance,
                        LAMBDA d : d.score_percentage >= 70)

\* ------------------------------------------------------------------------
\* the properties of the exam plan
\* ------------------------------------------------------------------------
\* C17: an ExamPlan the schema accepted whose recommendation is book_exam,
\* that is whose is_ready_to_book() is true, has an overall_score of at
\* least 80 and no critical risks
C17_BookingNeedsReadiness ==
    (trial.step = "called" /\ trial.schema = "ExamPlan") =>
        /\ trial.methods.is_ready_to_book <=> trial.built.value.action = "book_exam"
        /\ trial.methods.is_ready_to_book =>
              /\ trial.built.value.overall_score >= 80
              /\ trial.built.value.critical_risks = <<>>

\* the percentage an exam_weight text starts with
WeightPercent(exam_weight) ==
    DecodeDigits(exam_weight, 1, ScanDigits(exam_weight, 1), 0)

\* a domain weighted above 20% of the exam and scored below 60
CriticalRisk(d) == WeightPercent(d.exam_weight) > 20 /\ d.score < 60

\* C18: an ExamPlan run_exam_planning accepted does not recommend book_exam
\* while a domain of its domain_breakdown is a critical risk
C18_NoBookingWithCriticalRisk ==
    (exam_plan # None /\ exam_plan.action = "book_exam") =>
        \A i \in 1..Len(exam_plan.domain_breakdown) :
            ~CriticalRisk(exam_plan.domain_breakdown[i])

\* C19: when run_assessment_evaluation returned an AssessmentFeedback, the
\* prompt run_exam_planning gives the exam planner holds that feedback
\* beside the quiz questions and the answers
C19_ExamPlannerSeesFeedback ==
    ("exam_planning" \in DOMAIN prompt /\ feedback # None) =>
        /\ PairedAsAsked(prompt["exam_planning"].questions)
        /\ "feedback" \in DOMAIN prompt["exam_planning"]
        /\ prompt["exam_planning"].feedback = feedback

\* ------------------------------------------------------------------------
\* the properties of the study plan
\* ------------------------------------------------------------------------
\* the percentages of the milestones of a plan
MilestonePercentages(plan) ==
    {plan.milestones[i].percentage : i \in 1..Len(plan.milestones)}

\* C20: a StudyPlan run_preparation_workflow returns has
\* total_duration_weeks of at least 1 and milestones at 25, 50, 75 and 100
\* percent among its milestones
C20_StudyPlanWeeksAndMilestones ==
    study_plan # None =>
        /\ study_plan.total_duration_weeks >= 1
        /\ {25, 50, 75, 100} \subseteq MilestonePercentages(study_plan)

\* ------------------------------------------------------------------------
\* the properties of the agent configuration
\* ------------------------------------------------------------------------
\* C21: create_all_agents never ends in the unknown-agent error, what it
\* returns has the six keys curator, planner, engagement, assessor,
\* evaluator and exam_planner, and with every prompt file present it
\* returns
C21_AllAgentsCreated ==
    /\ startup # "ValueError"
    /\ startup = "ready" => {agents[i].key : i \in 1..Len(agents)} = Roles
    /\ (prompt_files = {AgentName(role) : role \in Roles} /\ startup # "creating") =>
          startup = "ready"

\* C22: get_temperature(name) returns the registered temperature, a value
\* from 0 to 1, for a registered name and fails with the unknown-agent
\* error for any other; get_agent_config(name) fails with that error for an
\* unregistered name; the registry stays as the class body defines it
C22_LookupsArePureAndStrict ==
    /\ TEMPERATURES = RegisteredTemperatures
    /\ lookup.call = "get_temperature" =>
          IF lookup.name \in DOMAIN RegisteredTemperatures
          THEN /\ lookup.result = [ok |-> TRUE, value |-> RegisteredTemperatures[lookup.name]]
               /\ lookup.result.value \in 0..10
          ELSE lookup.result = ValueError
    /\ (lookup.call = "get_agent_config"
          /\ lookup.name \notin DOMAIN RegisteredTemperatures) =>
          lookup.result = ValueError

C22_Witness ==
    /\ lookup.call = "get_agent_config"
    /\ lookup.name = "assessment_evaluator_agent"
    /\ lookup.name \in prompt_files
    /\ lookup.result = ValueError
    /\ Len(agents) = 4

\* ------------------------------------------------------------------------
\* the properties of the run, continued
\* ------------------------------------------------------------------------
\* C23: no phase writes a file: whatever the agents return and whichever
\* extraction fails, the working directory holds no file of the run
C23_NoFileWritten ==
    debug_file = None

\* the feedback the text of a result holds: the data extract_json_from_text
\* finds in it, given to AssessmentFeedback
FeedbackInText(text) ==
    IF extract_json_from_text(text).ok
    THEN AssessmentFeedback(extract_json_from_text(text).value)
    ELSE extract_json_from_text(text)

\* C24: when the evaluator's result has no structured payload and its text
\* is or contains valid AssessmentFeedback JSON, run_assessment_evaluation
\* returns the AssessmentFeedback built from the text, not None
C24_FeedbackFromText ==
    ("evaluation" \in DOMAIN results
        /\ results["evaluation"].structured_output = None
        /\ FeedbackInText(results["evaluation"].text).ok) =>
        /\ feedback # None
        /\ feedback = FeedbackInText(results["evaluation"].text).value

\* the fenced block of a text was found and does not parse as JSON
FencedBlockFails(text) ==
    /\ ~json_loads(text).ok
    /\ FencedBlockSearch(text).found
    /\ ~json_loads(FencedBlockSearch(text).group).ok

\* C25: when the text does not parse and the fenced block found in it does
\* not parse either, extract_json_from_text goes on to the brace span: it
\* returns what the span from the first "{" to the last "}" parses to
C25_FencedFailureFallsThrough ==
    \A c \in extract_calls :
        FencedBlockFails(c.text) =>
            c.result = FromBraceSpan(BraceSpanSearch(c.text))

\* C26: every answer the answer loop records is one of the letters A, B, C
\* and D, whatever lines stdin supplies
C26_AnswersAreLetters ==
    \A i \in 1..Len(user_answers) :
        \E letter \in AnswerLetters : user_answers[i] = <<letter>>

\* C27: when every answer prompt met a closed stdin, the answers recorded
\* are the correct answers of the questions, user_answers equals
\* get_correct_answers(), and run_exam_planning counts as many correct
\* answers as the quiz has questions
C27_AutoAnswersAreCorrect ==
    (/\ "evaluation" \in DOMAIN prompt
     /\ quiz # None
     /\ \A i \in 1..Len(asked) : asked[i].auto) =>
        /\ user_answers =
              [i \in 1..Len(quiz.questions) |-> <<get_correct_answers(quiz)[i]>>]
        /\ \A i \in 1..Len(asked) :
              \E k \in 1..Len(quiz.questions) :
                 /\ quiz.questions[k].question_number = asked[i].question_number
                 /\ user_answers[i] = <<quiz.questions[k].correct_answer>>
        /\ attributes # None =>
              attributes.correct_answers = Len(quiz.questions)

C27_Witness ==
    /\ attributes # None
    /\ Len(asked) = NumQuestions
    /\ \A i \in 1..Len(asked) : asked[i].auto
    /\ quiz.questions[1].question_number = NumQuestions
    /\ attributes.correct_answers = NumQuestions
    /\ pc = "exam_planning"

\* the run under fair scheduling: an agent invocation in progress returns
\* or raises, an input call returns or raises, and the code between them
\* runs on
FairSpec == Spec /\ WF_vars(Next)

\* how many times role was invoked
TimesInvoked(role) ==
    Cardinality({i \in 1..Len(invocations) : invocations[i] = role})

\* what a run may have done at any moment
WithinBudget ==
    /\ \A role \in Roles : TimesInvoked(role) <= 1
    /\ \A i \in 1..Len(invocations) :
          invocations[i] \in {"curator", "planner", "engagement"} =>
              i <= Len(create_preparation_workflow)
    /\ Len(invocations) <= Len(create_preparation_workflow) + 3
    /\ Len(checkpoint_result) <= 1
    /\ quiz = None => asked = <<>>
    /\ quiz # None => Len(asked) <= Len(quiz.questions)
    /\ pc = "done" <=> outcome \in {"deferred", "completed", "failed"}
    /\ pc # "done" => outcome = "running"

\* C28: every run of run_complete_workflow ends, in one of the outcomes
\* deferred, completed and failed, and on its way it runs the preparation
\* orchestration once, prompts at the checkpoint at most once, prompts for
\* an answer at most once per question of the quiz, and invokes at most three
\* agents after the preparation
C28_RunTerminates ==
    /\ []WithinBudget
    /\ <>[](pc = "done" /\ outcome \in {"deferred", "completed", "failed"})

C28_Witness ==
    /\ pc = "done"
    /\ outcome = "completed"
    /\ Len(invocations) = Len(create_preparation_workflow) + 3
    /\ Len(checkpoint_result) = 1
    /\ Len(asked) = NumQuestions
    /\ \E i \in 1..Len(asked) : ~asked[i].auto


\* C29: the session-completed summary ("Assessment: Completed with detailed
\* feedback", "All 6 agents executed successfully") is printed only in a run
\* in which Evaluation returned an AssessmentFeedback and Exam Planning
\* obtained an ExamPlan
C29_SummaryOnlyAfterSuccess ==
    "session_completed" \in stdout => feedback # None /\ exam_plan # None


\* ------------------------------------------------------------------------
\* the assessment tools (src/src/tools/assessment_tools.py)
\* ------------------------------------------------------------------------
ZeroDivisionError == [ok |-> FALSE, err |-> "ZeroDivisionError"]

\* Config.PASSING_SCORE_THRESHOLD, in tenths
PASSING_SCORE_THRESHOLD == 7

\* the longest list grade_assessment is called with
MaxGraded == 3

\* the indices an answer or a correct_answer is drawn from
AnswerIndices == 0..1

GradedTopics == {"storage", "network"}

\* the lists of questions, each a dict with correct_answer and topic
GradedQuestions ==
    UNION {[1..n -> [correct_answer : AnswerIndices, topic : GradedTopics]] :
              n \in 0..MaxGraded}

\* the lists of the student's answer indices
GradedAnswers == UNION {[1..n -> AnswerIndices] : n \in 0..MaxGraded}

\* the dict returned when the lengths differ
GradingMismatch(questions) ==
    [score |-> <<0, 1>>, total_questions |-> Len(questions), correct_answers |-> 0,
     passed |-> FALSE, weak_areas |-> {}]

\* the positions the loop over zip(questions, student_answers) counts
CorrectPositions(questions, student_answers) ==
    {i \in 1..Len(questions) : student_answers[i] = questions[i].correct_answer}

\* score >= Config.PASSING_SCORE_THRESHOLD for score = correct_count / total
Passes(correct, total) == 10 * correct >= PASSING_SCORE_THRESHOLD * total

\* the dict returned after the loop; score is the pair correct_count, total
Graded(questions, right) ==
    [score |-> <<Cardinality(right), Len(questions)>>,
     total_questions |-> Len(questions),
     correct_answers |-> Cardinality(right),
     passed |-> Passes(Cardinality(right), Len(questions)),
     weak_areas |-> {questions[i].topic : i \in (1..Len(questions)) \ right}]

\* grade_assessment(questions, student_answers); the feedback sentence of
\* the dict is left out
grade_assessment(questions, student_answers) ==
    IF Len(questions) # Len(student_answers)
    THEN [ok |-> TRUE, value |-> GradingMismatch(questions)]
    ELSE IF Len(questions) = 0 THEN ZeroDivisionError
    ELSE [ok |-> TRUE,
          value |-> Graded(questions, CorrectPositions(questions, student_answers))]

\* a caller holds a list of questions and a list of answers
GradingInit ==
    /\ pc = "tools"
    /\ outcome = "running"
    /\ error = "none"
    /\ stdin = <<>>
    /\ inflight = "none"
    /\ invocations = <<>>
    /\ transcript = <<UserMessage>>
    /\ conversation = <<>>
    /\ curated_plan = None
    /\ study_plan = None
    /\ study_plan_summary = <<>>
    /\ checkpoint_result = <<>>
    /\ quiz = None
    /\ user_answers = <<>>
    /\ feedback = None
    /\ exam_plan = None
    /\ shown = <<>>
    /\ asked = <<>>
    /\ call_args = [r \in {} |-> r]
    /\ prompt = [r \in {} |-> r]
    /\ results = [r \in {} |-> r]
    /\ attributes = None
    /\ debug_file = None
    /\ text_parsed = {}
    /\ extraction = [r \in Roles \ {"engagement"} |-> "none"]
    /\ extract_calls = {}
    /\ stdout = {}
    /\ trial = None
    /\ TEMPERATURES = RegisteredTemperatures
    /\ prompt_files = {}
    /\ agents = <<>>
    /\ startup = "none"
    /\ lookup = NoCall
    /\ \E questions \in GradedQuestions, student_answers \in GradedAnswers :
          graded = [call |-> "pending", questions |-> questions,
                    student_answers |-> student_answers]

\* grade_assessment is called with the two lists
GradeAssessment ==
    /\ graded.call = "pending"
    /\ graded' = [graded EXCEPT !.call = "grade_assessment"]
                 @@ [result |-> grade_assessment(graded.questions, graded.student_answers)]
    /\ UNCHANGED <<runVars, trial, TEMPERATURES, prompt_files, agents, startup, lookup>>

GradingNext == GradeAssessment

GradingSpec == GradingInit /\ [][GradingNext]_vars

\* C30: grade_assessment returns a result dict for every pair of lists: for
\* lists of different lengths the error result (score 0, no correct answer,
\* not passed, no weak area), and otherwise correct_answers is the number of
\* positions where the answer is the question's correct_answer, weak_areas
\* the topics of the wrongly answered questions, and passed holds exactly
\* when correct_answers / len(questions) >= 0.7
C30_GradeAssessmentTotal ==
    graded.call = "grade_assessment" =>
        /\ graded.result.ok
        /\ Len(graded.questions) # Len(graded.student_answers) =>
              /\ graded.result.value.score = <<0, 1>>
              /\ graded.result.value.correct_answers = 0
              /\ ~graded.result.value.passed
              /\ graded.result.value.weak_areas = {}
        /\ Len(graded.questions) = Len(graded.student_answers) =>
              /\ graded.result.value.correct_answers =
                    Cardinality({i \in 1..Len(graded.questions) :
                        graded.student_answers[i] = graded.questions[i].correct_answer})
              /\ graded.result.value.weak_areas =
                    {graded.questions[i].topic : i \in
                        {j \in 1..Len(graded.questions) :
                            graded.student_answers[j] # graded.questions[j].correct_answer}}
              /\ graded.result.value.passed <=>
                    10 * graded.result.value.correct_answers >= 7 * Len(graded.questions)

\* the same for the calls with at least one question
C30_GradedWhenNotEmpty ==
    (graded.call = "grade_assessment" /\ graded.questions # <<>>) =>
        C30_GradeAssessmentTotal

====
